---- MODULE Spec2Model ----
(***************************************************************************)
(* A model of the Python snippet analyzer of app.py: the analyzer object   *)
(* (PythonHabitAnalyzer), its six structural checks over the syntax tree,  *)
(* the pylint bridge with its temporary file, and the /analyze request     *)
(* handler that explains, normalises and ranks the findings.               *)
(***************************************************************************)
EXTENDS Integers, Sequences, FiniteSets, TLC

(***************************************************************************)
(* Category constants of PythonHabitAnalyzer.                              *)
(***************************************************************************)
SYNTAX_ERROR == "syntax_error"
RUNTIME_ERROR == "runtime_error"
FATAL_ERROR == "fatal_error"
BAD_HABIT == "bad_habit"
POTENTIAL_ERROR == "potential_error"

\* Python's None, where it is the value of a line number.
NoLine == -1

(***************************************************************************)
(* Syntax trees.  A node is a record carrying its class in kind and the    *)
(* fields of that class the analyzer reads.  Expression-context and        *)
(* operator nodes (Load, Store, Add) are left out: no isinstance test of   *)
(* the analyzer matches them and they have no children.                    *)
(***************************************************************************)
NoneNode == [kind |-> "None"]
Name(id, ln) == [kind |-> "Name", id |-> id, lineno |-> ln, ctx |-> "Load"]
\* A name that is assigned to: an assignment or loop target.
NameStore(id, ln) == [kind |-> "Name", id |-> id, lineno |-> ln, ctx |-> "Store"]
Constant(v, ln) == [kind |-> "Constant", value |-> v, lineno |-> ln]
Attribute(value, attr, ln) ==
    [kind |-> "Attribute", value |-> value, attr |-> attr, lineno |-> ln]
Call(func, args, ln) == [kind |-> "Call", func |-> func, args |-> args, lineno |-> ln]
List(elts, ln) == [kind |-> "List", elts |-> elts, lineno |-> ln]
Dict(ln) == [kind |-> "Dict", lineno |-> ln]
arg(a, ln) == [kind |-> "arg", arg |-> a, lineno |-> ln]
arguments(args, defaults) == [kind |-> "arguments", args |-> args, defaults |-> defaults]
FunctionDef(name, args, body, ln) ==
    [kind |-> "FunctionDef", name |-> name, args |-> args, body |-> body, lineno |-> ln]
While(test, body, ln) == [kind |-> "While", test |-> test, body |-> body, lineno |-> ln]
For(target, iter, body, ln) ==
    [kind |-> "For", target |-> target, iter |-> iter, body |-> body, lineno |-> ln]
If(test, body, ln) == [kind |-> "If", test |-> test, body |-> body, lineno |-> ln]
ExceptHandler(type, body, ln) ==
    [kind |-> "ExceptHandler", type |-> type, body |-> body, lineno |-> ln]
Try(body, handlers, finalbody, ln) ==
    [kind |-> "Try", body |-> body, handlers |-> handlers, finalbody |-> finalbody,
     lineno |-> ln]
withitem(context_expr, optional_vars) ==
    [kind |-> "withitem", context_expr |-> context_expr, optional_vars |-> optional_vars]
With(items, body, ln) == [kind |-> "With", items |-> items, body |-> body, lineno |-> ln]
Assign(targets, value, ln) ==
    [kind |-> "Assign", targets |-> targets, value |-> value, lineno |-> ln]
AugAssign(target, value, ln) ==
    [kind |-> "AugAssign", target |-> target, value |-> value, lineno |-> ln]
Expr(value, ln) == [kind |-> "Expr", value |-> value, lineno |-> ln]
Return(value, ln) == [kind |-> "Return", value |-> value, lineno |-> ln]
Break(ln) == [kind |-> "Break", lineno |-> ln]
Continue(ln) == [kind |-> "Continue", lineno |-> ln]
Pass(ln) == [kind |-> "Pass", lineno |-> ln]
Raise(exc, ln) == [kind |-> "Raise", exc |-> exc, lineno |-> ln]
Module(body) == [kind |-> "Module", body |-> body]

\* A field that holds None contributes no child.
Opt(n) == IF n.kind = "None" THEN <<>> ELSE <<n>>

\* ast.iter_child_nodes: the child nodes in the order of the class's _fields.
Children(n) ==
    CASE n.kind = "Module" -> n.body
      [] n.kind = "FunctionDef" -> <<n.args>> \o n.body
      [] n.kind = "arguments" -> n.args \o n.defaults
      [] n.kind = "While" -> <<n.test>> \o n.body
      [] n.kind = "For" -> <<n.target, n.iter>> \o n.body
      [] n.kind = "If" -> <<n.test>> \o n.body
      [] n.kind = "Try" -> n.body \o n.handlers \o n.finalbody
      [] n.kind = "ExceptHandler" -> Opt(n.type) \o n.body
      [] n.kind = "With" -> n.items \o n.body
      [] n.kind = "withitem" -> <<n.context_expr>> \o Opt(n.optional_vars)
      [] n.kind = "Assign" -> n.targets \o <<n.value>>
      [] n.kind = "AugAssign" -> <<n.target, n.value>>
      [] n.kind = "Expr" -> <<n.value>>
      [] n.kind = "Return" -> Opt(n.value)
      [] n.kind = "Raise" -> Opt(n.exc)
      [] n.kind = "Call" -> <<n.func>> \o n.args
      [] n.kind = "Attribute" -> <<n.value>>
      [] n.kind = "List" -> n.elts
      [] OTHER -> <<>>

RECURSIVE WalkQueue(_)
WalkQueue(todo) ==
    IF todo = <<>> THEN <<>>
    ELSE <<Head(todo)>> \o WalkQueue(Tail(todo) \o Children(Head(todo)))

\* ast.walk: the node and its descendants, breadth first.
Walk(node) == WalkQueue(<<node>>)

\* The set of nodes ast.walk(node) yields.
Nodes(node) == LET nodes == Walk(node) IN {nodes[i] : i \in 1..Len(nodes)}

IsMutableLiteral(n) == n.kind \in {"List", "Dict", "Set"}
IsCallToName(n, id) == n.kind = "Call" /\ n.func.kind = "Name" /\ n.func.id = id
AssignsName(n, id) ==
    n.kind = "Assign"
    /\ \E t \in 1..Len(n.targets) : n.targets[t].kind = "Name" /\ n.targets[t].id = id

\* One entry of the feedback list.  message is the message template; detail
\* is the sequence of texts interpolated into it (an exception's text, a name).
\* explanation and fix are the keys the request handler adds; "absent" stands for
\* a key that is not in the dictionary.
Finding(line, message, detail, is_bad_habit, category, source) ==
    [line |-> line, message |-> message, detail |-> detail,
     is_bad_habit |-> is_bad_habit, category |-> category, source |-> source,
     explanation |-> "absent", fix |-> "absent"]


\* Python dictionaries: a function from the keys present to their values.
EmptyDict == [k \in {} |-> 0]
Put(d, k, v) == [x \in DOMAIN d \cup {k} |-> IF x = k THEN v ELSE d[x]]
Get(d, k, default) == IF k \in DOMAIN d THEN d[k] ELSE default

RECURSIVE Concat(_)
\* The concatenation of a sequence of sequences.
Concat(ss) == IF ss = <<>> THEN <<>> ELSE Head(ss) \o Concat(Tail(ss))

(***************************************************************************)
(* _build_context: one pass over ast.walk(tree) that fills self.variables, *)
(* self.functions and self.control_flow.                                   *)
(***************************************************************************)

RECURSIVE CountTargets(_, _)
\* The loop over node.targets of an Assign: one more binding per Name target.
CountTargets(targets, variables) ==
    IF targets = <<>> THEN variables
    ELSE CountTargets(Tail(targets),
            IF Head(targets).kind = "Name"
            THEN Put(variables, Head(targets).id, Get(variables, Head(targets).id, 0) + 1)
            ELSE variables)

\* The record stored for a function definition, with the facts of its subtree.
FunctionFacts(node) ==
    [node |-> node,
     calls |-> 0,
     has_return |-> (\E s \in Nodes(node) : s.kind = "Return"),
     has_break |-> (\E s \in Nodes(node) : s.kind = "Break"),
     has_mutable_defaults |->
        \E d \in 1..Len(node.args.defaults) : IsMutableLiteral(node.args.defaults[d]),
     exception_handlers |-> SelectSeq(Walk(node), LAMBDA s : s.kind = "ExceptHandler")]

\* The body of the loop of _build_context for one node.
ContextStep(ctx, node) ==
    IF node.kind = "Assign"
    THEN [ctx EXCEPT !.variables = CountTargets(node.targets, ctx.variables)]
    ELSE IF node.kind = "FunctionDef"
    THEN [ctx EXCEPT !.functions = Put(ctx.functions, node.name, FunctionFacts(node))]
    ELSE IF node.kind = "Call" /\ node.func.kind = "Name"
    THEN IF node.func.id \in DOMAIN ctx.functions
         THEN [ctx EXCEPT !.functions[node.func.id].calls = @ + 1]
         ELSE ctx
    ELSE IF node.kind \in {"For", "While", "If"}
    THEN [ctx EXCEPT !.control_flow = Append(@, node)]
    ELSE ctx

RECURSIVE ContextFold(_, _)
ContextFold(ctx, nodes) ==
    IF nodes = <<>> THEN ctx ELSE ContextFold(ContextStep(ctx, Head(nodes)), Tail(nodes))

\* self holds the analyzer's fields; the pass updates variables, functions and
\* control_flow in place.
_build_context(self, tree) == ContextFold(self, Walk(tree))

(***************************************************************************)
(* The six structural checks.  Each returns the findings it appends to     *)
(* self.feedback, in order.                                                *)
(***************************************************************************)

\* Whether one of the first len(defaults) parameters is assigned in the body.
ReassignsDefault(node) ==
    \E i \in 1..Len(node.args.args) :
        /\ i - 1 < Len(node.args.defaults)
        /\ node.args.args[i].kind = "arg"
        /\ (\E s \in Nodes(node) : AssignsName(s, node.args.args[i].arg))

MutableDefaultCategory(node, functions) ==
    IF node.name \in DOMAIN functions
    THEN IF functions[node.name].calls > 1 \/ ReassignsDefault(node)
         THEN POTENTIAL_ERROR
         ELSE BAD_HABIT
    ELSE RUNTIME_ERROR

MutableDefaultFindings(node, functions) ==
    IF node.kind # "FunctionDef" THEN <<>>
    ELSE LET mutable == SelectSeq(node.args.defaults, IsMutableLiteral)
         IN  [d \in 1..Len(mutable) |->
                Finding(node.lineno, "mutable default argument", <<node.name>>, TRUE,
                        MutableDefaultCategory(node, functions), "ast")]

_check_mutable_defaults(tree, functions) ==
    LET nodes == Walk(tree)
    IN  Concat([i \in 1..Len(nodes) |-> MutableDefaultFindings(nodes[i], functions)])

\* A node that the infinite-loop check accepts as a way out of the loop.
IsLoopExit(child) ==
    \/ child.kind \in {"Break", "Return", "Raise"}
    \/ child.kind = "Call" /\ child.func.kind = "Attribute" /\ child.func.attr = "exit"

\* The check without its look for a conditional: every loop without a way
\* out is a fatal error.
InfiniteLoopFindingsAlwaysFatal(node) ==
    IF /\ node.kind = "While"
       /\ node.test.kind = "Constant"
       /\ node.test.value = "True"
       /\ ~(\E child \in Nodes(node) : IsLoopExit(child))
    THEN <<Finding(node.lineno, "Infinite loop detected", <<>>, TRUE, FATAL_ERROR, "ast")>>
    ELSE <<>>

InfiniteLoopFindings(node) ==
    IF /\ node.kind = "While"
       /\ node.test.kind = "Constant"
       /\ node.test.value = "True"
       /\ ~(\E child \in Nodes(node) : IsLoopExit(child))
    THEN <<Finding(node.lineno, "Infinite loop detected", <<>>, TRUE,
                   IF (\E s \in Nodes(node) : s.kind = "If")
                   THEN POTENTIAL_ERROR ELSE FATAL_ERROR,
                   "ast")>>
    ELSE <<>>

_check_infinite_loops(tree) ==
    LET nodes == Walk(tree)
    IN  Concat([i \in 1..Len(nodes) |-> InfiniteLoopFindings(nodes[i])])

\* getattr(node, 'parent', None): nothing in the program sets a parent
\* attribute on a node, so the lookup yields its default.
Parent(node) == NoneNode
\* hasattr(node, 'parent')
HasParent(node) == Parent(node) # NoneNode

IsLoggingStmt(stmt) ==
    /\ stmt.kind = "Expr" /\ stmt.value.kind = "Call"
    /\ stmt.value.func.kind = "Attribute"
    /\ stmt.value.func.attr \in {"debug", "info", "warning", "error", "critical", "exception"}
IsPrintStmt(stmt) ==
    /\ stmt.kind = "Expr" /\ stmt.value.kind = "Call"
    /\ ~IsLoggingStmt(stmt)
    /\ stmt.value.func.kind = "Name" /\ stmt.value.func.id = "print"

IsBroadHandler(node) ==
    /\ node.kind = "ExceptHandler"
    /\ \/ node.type.kind = "None"
       \/ node.type.kind = "Name" /\ node.type.id = "Exception"

\* The check without its look for a re-raise among the handler's statements.
ExceptionHandlingFindingsNoReraise(node) ==
    IF ~IsBroadHandler(node) THEN <<>>
    ELSE LET is_just_pass == Len(node.body) = 1 /\ node.body[1].kind = "Pass"
             has_logging == \E i \in 1..Len(node.body) : IsLoggingStmt(node.body[i])
             has_print == \E i \in 1..Len(node.body) : IsPrintStmt(node.body[i])
         IN  IF is_just_pass
             THEN <<Finding(node.lineno, "bare except: pass", <<>>, TRUE, RUNTIME_ERROR,
                            "ast")>>
             ELSE <<Finding(node.lineno, "bare except or except Exception", <<>>, TRUE,
                            IF has_logging \/ has_print
                            THEN BAD_HABIT ELSE POTENTIAL_ERROR,
                            "ast")>>

ExceptionHandlingFindings(node) ==
    IF ~IsBroadHandler(node) THEN <<>>
    ELSE LET is_just_pass == Len(node.body) = 1 /\ node.body[1].kind = "Pass"
             has_logging == \E i \in 1..Len(node.body) : IsLoggingStmt(node.body[i])
             has_print == \E i \in 1..Len(node.body) : IsPrintStmt(node.body[i])
             has_reraise == \E i \in 1..Len(node.body) : node.body[i].kind = "Raise"
             parent == Parent(node)
         IN  IF is_just_pass
             THEN <<Finding(node.lineno, "bare except: pass", <<>>, TRUE,
                            IF parent # NoneNode /\ parent.kind = "Try"
                               /\ parent.finalbody # <<>>
                            THEN BAD_HABIT ELSE RUNTIME_ERROR,
                            "ast")>>
             ELSE <<Finding(node.lineno, "bare except or except Exception", <<>>, TRUE,
                            IF has_logging \/ has_print \/ has_reraise
                            THEN BAD_HABIT ELSE POTENTIAL_ERROR,
                            "ast")>>

_check_exception_handling(tree) ==
    LET nodes == Walk(tree)
    IN  Concat([i \in 1..Len(nodes) |-> ExceptionHandlingFindings(nodes[i])])


\* Whether some ancestor of node, following parent links, is a node of class kind.
RECURSIVE HasAncestor(_, _)
HasAncestor(node, kind) ==
    IF Parent(node) = NoneNode THEN FALSE
    ELSE IF Parent(node).kind = kind THEN TRUE
    ELSE HasAncestor(Parent(node), kind)

\* The enclosing function definition found through the parent links, or None.
RECURSIVE ParentFunc(_)
ParentFunc(node) ==
    IF Parent(node) = NoneNode THEN NoneNode
    ELSE IF Parent(node).kind = "FunctionDef" THEN Parent(node)
    ELSE ParentFunc(Parent(node))

\* The open() call is the value of an assignment to a variable recorded as closed.
AssignedAndClosed(node, file_vars) ==
    /\ HasParent(node)
    /\ Parent(node).kind = "Assign"
    /\ Len(Parent(node).targets) = 1
    /\ Parent(node).targets[1].kind = "Name"
    /\ Parent(node).targets[1].id \in DOMAIN file_vars
    /\ file_vars[Parent(node).targets[1].id].closed

ResourceCategory(node) ==
    LET parent_func == ParentFunc(node)
    IN  IF parent_func # NoneNode
        THEN IF (\E c \in Nodes(parent_func) : c.kind = "Try" /\ c.finalbody # <<>>)
             THEN BAD_HABIT
             ELSE RUNTIME_ERROR
        ELSE POTENTIAL_ERROR

\* The body of the loop of _check_resource_management for one node; st holds
\* file_vars and the findings appended so far.
ResourceStep(st, node) ==
    IF node.kind = "Assign" /\ Len(node.targets) = 1 /\ node.targets[1].kind = "Name"
    THEN IF IsCallToName(node.value, "open")
         THEN [st EXCEPT !.file_vars = Put(@, node.targets[1].id, [closed |-> FALSE])]
         ELSE st
    ELSE IF node.kind = "Expr" /\ node.value.kind = "Call"
    THEN IF /\ node.value.func.kind = "Attribute"
            /\ node.value.func.attr = "close"
            /\ node.value.func.value.kind = "Name"
            /\ node.value.func.value.id \in DOMAIN st.file_vars
         THEN [st EXCEPT !.file_vars[node.value.func.value.id].closed = TRUE]
         ELSE st
    ELSE IF node.kind = "Call" /\ node.func.kind = "Name"
    THEN IF /\ node.func.id = "open"
            /\ ~HasAncestor(node, "With")
            /\ ~AssignedAndClosed(node, st.file_vars)
         THEN [st EXCEPT !.out = Append(@,
                  Finding(node.lineno, "File opened without context manager", <<>>, TRUE,
                          ResourceCategory(node), "ast"))]
         ELSE st
    ELSE st

RECURSIVE ResourceFold(_, _)
ResourceFold(st, nodes) ==
    IF nodes = <<>> THEN st ELSE ResourceFold(ResourceStep(st, Head(nodes)), Tail(nodes))

_check_resource_management(tree) ==
    ResourceFold([file_vars |-> EmptyDict, out |-> <<>>], Walk(tree)).out

IsJump(stmt) == stmt.kind \in {"Return", "Break", "Continue"}

\* list.index on a statement list: the first position holding an element equal
\* to the one at position i.  Nodes compare by identity, so that is i itself.
BodyIndex(body, i) == CHOOSE k \in 1..Len(body) : k = i

\* The category loop over the statements collected as unreachable.
RECURSIVE UnreachableCategory(_)
UnreachableCategory(stmts) ==
    IF stmts = <<>> THEN BAD_HABIT
    ELSE IF Head(stmts).kind \in {"Assign", "AugAssign", "Call"} THEN POTENTIAL_ERROR
    ELSE IF Head(stmts).kind = "Return" THEN RUNTIME_ERROR
    ELSE UnreachableCategory(Tail(stmts))

UnreachableFindings(node) ==
    IF node.kind \notin {"FunctionDef", "For", "While"} THEN <<>>
    ELSE LET body == node.body
             jumps == {j \in 1..Len(body) : IsJump(body[j])}
             \* the first statement met with a jump before it that is not the last one
             hits == {i \in 1..Len(body) :
                        /\ \E j \in jumps : j < i
                        /\ i - 1 < Len(body) - 1}
         IN  IF hits = {} THEN <<>>
             ELSE LET first == CHOOSE i \in hits : \A k \in hits : i <= k
                      picked == {i \in 1..Len(body) : i > BodyIndex(body, i)}
                      unreachable_stmts ==
                          SelectSeq([i \in 1..Len(body) |-> [pos |-> i, stmt |-> body[i]]],
                                    LAMBDA e : e.pos \in picked)
                  IN  <<Finding(body[first].lineno, "Unreachable code detected", <<>>, TRUE,
                                UnreachableCategory(
                                    [i \in 1..Len(unreachable_stmts) |->
                                        unreachable_stmts[i].stmt]),
                                "ast")>>

_check_unreachable_code(tree) ==
    LET nodes == Walk(tree)
    IN  Concat([i \in 1..Len(nodes) |-> UnreachableFindings(nodes[i])])

builtin_names ==
    {"list", "dict", "set", "tuple", "int", "float", "str", "bool", "type",
     "object", "file", "open", "input", "print", "range", "enumerate",
     "len", "max", "min", "sum", "filter", "map", "zip"}

critical_builtins == {"open", "print", "input", "len", "str", "int", "float"}

\* The shadowing instances one node contributes, in the order they are recorded.
ShadowInstances(node) ==
    IF node.kind = "Assign"
    THEN LET hit == SelectSeq(node.targets,
                        LAMBDA t : t.kind = "Name" /\ t.id \in builtin_names)
         IN  [i \in 1..Len(hit) |-> [name |-> hit[i].id, node |-> node, type |-> "variable"]]
    ELSE IF node.kind = "FunctionDef"
    THEN LET hit == SelectSeq(node.args.args, LAMBDA a : a.arg \in builtin_names)
         IN  [i \in 1..Len(hit) |-> [name |-> hit[i].arg, node |-> node, type |-> "parameter"]]
    ELSE <<>>

\* The iteration order of the shadowed_builtins dictionary: names in the order
\* of their first instance, each name's instances in the order recorded.
RECURSIVE GroupByName(_)
GroupByName(instances) ==
    IF instances = <<>> THEN <<>>
    ELSE SelectSeq(instances, LAMBDA x : x.name = Head(instances).name)
         \o GroupByName(SelectSeq(instances, LAMBDA x : x.name # Head(instances).name))

ShadowFinding(instance) ==
    LET scope_node == instance.node
        tries_to_use_original ==
            (\E s \in Nodes(scope_node) : IsCallToName(s, instance.name))
        category == IF tries_to_use_original THEN RUNTIME_ERROR
                    ELSE IF instance.name \in critical_builtins THEN POTENTIAL_ERROR
                    ELSE BAD_HABIT
    IN  Finding(instance.node.lineno,
                IF instance.type = "variable"
                THEN "Variable name shadows a built-in"
                ELSE "Function parameter shadows a built-in",
                <<instance.name>>, TRUE, category, "ast")

_check_shadowing_builtins(tree) ==
    LET nodes == Walk(tree)
        shadowed_builtins ==
            GroupByName(Concat([i \in 1..Len(nodes) |-> ShadowInstances(nodes[i])]))
    IN  [i \in 1..Len(shadowed_builtins) |-> ShadowFinding(shadowed_builtins[i])]


(***************************************************************************)
(* The snippets analysed.  Each is a source text (named by text, quoted in *)
(* the comment), what ast.parse makes of it, and the messages pylint       *)
(* reports for a file holding it.                                          *)
(***************************************************************************)
PylintMessage(type, symbol, text, names, line) ==
    [isdict |-> TRUE, type |-> type, symbol |-> symbol, text |-> text, names |-> names,
     line |-> line]

Parsed(text, tree, messages) ==
    [text |-> text, parse |-> "ok", compile |-> "ok", tree |-> tree, lineno |-> 0,
     messages |-> messages]
\* A text ast.parse accepts and compile() rejects with a SyntaxError at lineno.
Uncompilable(text, tree, lineno, messages) ==
    [text |-> text, parse |-> "ok", compile |-> "SyntaxError", tree |-> tree,
     lineno |-> lineno, messages |-> messages]
\* A text ast.parse and compile() reject with a SyntaxError whose lineno is as
\* given.
Unparsable(text, lineno, messages) ==
    [text |-> text, parse |-> "SyntaxError", compile |-> "SyntaxError", tree |-> NoneNode,
     lineno |-> lineno, messages |-> messages]
\* A text on which ast.parse and compile() raise an exception that is no
\* SyntaxError.
Unreadable(text, error) ==
    [text |-> text, parse |-> error, compile |-> error, tree |-> NoneNode, lineno |-> 0,
     messages |-> <<>>]

\*  1 x = 1
Clean ==
    Parsed("clean",
           Module(<<Assign(<<NameStore("x", 1)>>, Constant("1", 1), 1)>>),
           <<>>)

\*  1 list = [1]
\*  2 def f(a=[]):
\*  3     return a
\*  4 while True:
\*  5     pass
\*  6 try:
\*  7     x = 1
\*  8 except:
\*  9     pass
Mixed ==
    Parsed("mixed",
           Module(<<Assign(<<NameStore("list", 1)>>, List(<<Constant("1", 1)>>, 1), 1),
                    FunctionDef("f", arguments(<<arg("a", 2)>>, <<List(<<>>, 2)>>),
                                <<Return(Name("a", 3), 3)>>, 2),
                    While(Constant("True", 4), <<Pass(5)>>, 4),
                    Try(<<Assign(<<NameStore("x", 7)>>, Constant("1", 7), 7)>>,
                        <<ExceptHandler(NoneNode, <<Pass(9)>>, 8)>>, <<>>, 6)>>),
           <<PylintMessage("warning", "redefined-builtin",
                           "Redefining built-in", <<"list">>, 1),
             PylintMessage("warning", "dangerous-default-value",
                           "Dangerous default value [] as argument", <<>>, 2),
             PylintMessage("warning", "bare-except",
                           "No exception type(s) specified", <<>>, 8)>>)

\*  1 def g(n):
\*  2     return n
\*  3     n = 2
\*  4     n = 3
\*  5 f = open("a")
\*  6 print(y)
Leak ==
    Parsed("leak",
           Module(<<FunctionDef("g", arguments(<<arg("n", 1)>>, <<>>),
                                <<Return(Name("n", 2), 2),
                                  Assign(<<NameStore("n", 3)>>, Constant("2", 3), 3),
                                  Assign(<<NameStore("n", 4)>>, Constant("3", 4), 4)>>, 1),
                    Assign(<<NameStore("f", 5)>>,
                           Call(Name("open", 5), <<Constant("a", 5)>>, 5), 5),
                    Expr(Call(Name("print", 6), <<Name("y", 6)>>, 6), 6)>>),
           <<PylintMessage("warning", "unreachable", "Unreachable code", <<>>, 3),
             PylintMessage("error", "undefined-variable",
                           "Undefined variable", <<"y">>, 6),
             PylintMessage("refactor", "consider-using-with",
                           "Consider using with for resource-allocating operations",
                           <<>>, 5)>>)

\*  1 def f(items=[]):
\*  2     items.append(1)
\*  3 f()
\*  4 f()
Calls ==
    Parsed("calls",
           Module(<<FunctionDef("f", arguments(<<arg("items", 1)>>, <<List(<<>>, 1)>>),
                                <<Expr(Call(Attribute(Name("items", 2), "append", 2),
                                            <<Constant("1", 2)>>, 2), 2)>>, 1),
                    Expr(Call(Name("f", 3), <<>>, 3), 3),
                    Expr(Call(Name("f", 4), <<>>, 4), 4)>>),
           <<PylintMessage("warning", "dangerous-default-value",
                           "Dangerous default value [] as argument", <<>>, 1)>>)

\*  1 def h(len, str):
\*  2     return len(str)
\*  3 print = 1
Shadow ==
    Parsed("shadow",
           Module(<<FunctionDef("h", arguments(<<arg("len", 1), arg("str", 1)>>, <<>>),
                                <<Return(Call(Name("len", 2), <<Name("str", 2)>>, 2), 2)>>,
                                1),
                    Assign(<<NameStore("print", 3)>>, Constant("1", 3), 3)>>),
           <<PylintMessage("warning", "redefined-builtin",
                           "Redefining built-in", <<"len">>, 1),
             PylintMessage("warning", "redefined-builtin",
                           "Redefining built-in", <<"str">>, 1),
             PylintMessage("warning", "redefined-builtin",
                           "Redefining built-in", <<"print">>, 3)>>)

\*  1 for i in range(3):
\*  2     pass
\*  3 print(i)
LoopVar ==
    Parsed("loopvar",
           Module(<<For(NameStore("i", 1), Call(Name("range", 1), <<Constant("3", 1)>>, 1),
                        <<Pass(2)>>, 1),
                    Expr(Call(Name("print", 3), <<Name("i", 3)>>, 3), 3)>>),
           <<PylintMessage("warning", "undefined-loop-variable",
                           "Using possibly undefined loop variable", <<"i">>, 3)>>)

\*  1 x = (
Unbalanced ==
    Unparsable("unbalanced", 1,
               <<PylintMessage("error", "syntax-error",
                               "Parsing failed: '(' was never closed", <<>>, 1)>>)

\*  1 x = 1
\*  2 y = 2
\*  3 z = )
LateError ==
    Unparsable("late_error", 3,
               <<PylintMessage("error", "syntax-error",
                               "Parsing failed: unmatched ')'", <<>>, 3)>>)

\*  1 x = 1<NUL>      (a null byte: the SyntaxError carries no line number)
NullByte ==
    Unparsable("null_byte", NoLine,
               <<PylintMessage("error", "syntax-error",
                               "Parsing failed: source code string cannot contain null bytes",
                               <<>>, 1)>>)

\*  1 x = '<U+D800>'  (a lone surrogate: ast.parse raises UnicodeEncodeError)
Surrogate == Unreadable("surrogate", "UnicodeEncodeError")

\*  1 return 1      (parses; compile() rejects a return outside a function)
Stray ==
    Uncompilable("stray",
                 Module(<<Return(Constant("1", 1), 1)>>), 1,
                 <<PylintMessage("error", "return-outside-function",
                                 "Return outside function", <<>>, 1)>>)

\*  1 obj.run()
Method ==
    Parsed("method",
           Module(<<Expr(Call(Attribute(Name("obj", 1), "run", 1), <<>>, 1), 1)>>),
           <<PylintMessage("error", "undefined-variable",
                           "Undefined variable", <<"obj">>, 1)>>)

\* The snippets posted in the request scenarios.
Posted == <<Clean, Mixed, Leak, Calls, Shadow, LoopVar, Unbalanced, LateError, NullByte,
            Surrogate, Stray, Method>>

(***************************************************************************)
(* Families of small snippets, one per rule of the checks and of the       *)
(* bridge, that enumerate the shapes the rule distinguishes.               *)
(***************************************************************************)
\* Statements in a generated block.
MaxBody == 2
\* Call sites of a generated function.
MaxSites == 2

\* What pylint reports for every generated snippet besides the message under
\* study: a convention message.
Docstring ==
    PylintMessage("convention", "missing-module-docstring", "Missing module docstring",
                  <<>>, 1)

\* print(n)
PrintCall(ln) == Expr(Call(Name("print", ln), <<Name("n", ln)>>, ln), ln)
\* n.<attr>()
MethodCall(attr, ln) == Expr(Call(Attribute(Name("n", ln), attr, ln), <<>>, ln), ln)
\* n = 1
AssignN(ln) == Assign(<<NameStore("n", ln)>>, Constant("1", ln), ln)

\* The statements of a generated block on line ln: those of a loop body ...
LoopStatements(ln) ==
    <<Pass(ln), Break(ln), Continue(ln), Return(Name("n", ln), ln),
      Raise(Name("ValueError", ln), ln), MethodCall("exit", ln),
      If(Name("n", ln), <<Break(ln)>>, ln), If(Name("n", ln), <<Pass(ln)>>, ln),
      AssignN(ln), PrintCall(ln)>>
\* ... and those of an exception handler.
HandlerStatements(ln) ==
    <<Pass(ln), Raise(NoneNode, ln), PrintCall(ln), MethodCall("error", ln), AssignN(ln),
      Return(Name("n", ln), ln)>>

Statements(family, ln) ==
    IF family = "loop" THEN LoopStatements(ln) ELSE HandlerStatements(ln)

RECURSIVE Blocks(_, _, _)
\* Every block of len statements of a family, on the lines first, first + 1, ...
Blocks(family, first, len) ==
    IF len = 0 THEN << <<>> >>
    ELSE LET heads == Statements(family, first)
             rest == Blocks(family, first + 1, len - 1)
         IN  Concat([i \in 1..Len(heads) |->
                       [j \in 1..Len(rest) |-> <<heads[i]>> \o rest[j]]])

\* Every block of 1 to MaxBody statements.
AllBlocks(family, first) == Concat([len \in 1..MaxBody |-> Blocks(family, first, len)])

\*  1 def run(n):
\*  2     while True:
\*  3         <block>
LoopProbe(block) ==
    Parsed("loop",
           Module(<<FunctionDef("run", arguments(<<arg("n", 1)>>, <<>>),
                                <<While(Constant("True", 2), block, 2)>>, 1)>>),
           <<Docstring>>)

LoopProbes == LET blocks == AllBlocks("loop", 3) IN [i \in 1..Len(blocks) |-> LoopProbe(blocks[i])]

\*  1 def run(n):
\*  2     try:
\*  3         n = 1
\*  4     except <type>:
\*  5         <block>
\*        finally:             (when cleanup)
\*            pass
HandlerProbe(type, block, cleanup) ==
    Parsed("handler",
           Module(<<FunctionDef("run", arguments(<<arg("n", 1)>>, <<>>),
                                <<Try(<<AssignN(3)>>, <<ExceptHandler(type, block, 4)>>,
                                      IF cleanup THEN <<Pass(6 + Len(block))>> ELSE <<>>,
                                      2)>>, 1)>>),
           <<Docstring>>)

HandlerTypes == <<NoneNode, Name("Exception", 4), Name("ValueError", 4)>>

HandlerProbes ==
    LET blocks == AllBlocks("handler", 5)
    IN  Concat([t \in 1..Len(HandlerTypes) |->
                  Concat([i \in 1..Len(blocks) |->
                            <<HandlerProbe(HandlerTypes[t], blocks[i], FALSE),
                              HandlerProbe(HandlerTypes[t], blocks[i], TRUE)>>])])

\*  1 def f(<param>=<default>):        or  def f(a, <param>=<default>):
\*  2     <stmt>
\*  3 f()                              or  f(1)     (sites times)
FunctionProbe(param, default, leading, stmt, sites) ==
    Parsed("function",
           Module(<<FunctionDef("f",
                                arguments((IF leading THEN <<arg("a", 1)>> ELSE <<>>)
                                          \o <<arg(param, 1)>>, <<default>>),
                                <<stmt>>, 1)>>
                  \o [k \in 1..sites |->
                        Expr(Call(Name("f", 2 + k),
                                  IF leading THEN <<Constant("1", 2 + k)>> ELSE <<>>,
                                  2 + k), 2 + k)]),
           <<Docstring>>)

ParamNames == <<"list", "items">>
Defaults == <<List(<<>>, 1), Dict(1), Constant("None", 1)>>
FunctionStatements(param) ==
    <<Pass(2),
      Expr(Call(Attribute(Name(param, 2), "append", 2), <<Constant("1", 2)>>, 2), 2),
      Assign(<<NameStore(param, 2)>>, List(<<>>, 2), 2),
      Assign(<<NameStore("a", 2)>>, Constant("1", 2), 2)>>

FunctionProbes ==
    Concat([p \in 1..Len(ParamNames) |->
      Concat([d \in 1..Len(Defaults) |->
        Concat([s \in 1..Len(FunctionStatements(ParamNames[p])) |->
          Concat([k \in 1..(MaxSites + 1) |->
                    <<FunctionProbe(ParamNames[p], Defaults[d], FALSE,
                                    FunctionStatements(ParamNames[p])[s], k - 1),
                      FunctionProbe(ParamNames[p], Defaults[d], TRUE,
                                    FunctionStatements(ParamNames[p])[s], k - 1)>>])])])])

\*  1 <name> = [1]                     or  <name> = <name>([1])
\*  2 <name>()                         or  print(<name>)      or nothing
ShadowProbe(name, wraps, later) ==
    Parsed("shadowing",
           Module(<<Assign(<<NameStore(name, 1)>>,
                           IF wraps
                           THEN Call(Name(name, 1), <<List(<<Constant("1", 1)>>, 1)>>, 1)
                           ELSE List(<<Constant("1", 1)>>, 1), 1)>>
                  \o (CASE later = "call" -> <<Expr(Call(Name(name, 2), <<>>, 2), 2)>>
                        [] later = "print" ->
                              <<Expr(Call(Name("print", 2), <<Name(name, 2)>>, 2), 2)>>
                        [] OTHER -> <<>>)),
           <<Docstring>>
           \o (IF later = "call"
               THEN <<PylintMessage("error", "not-callable", "is not callable",
                                    <<>>, 2)>>
               ELSE <<>>))

ShadowNames == <<"list", "dict", "open", "len", "total">>
Laters == <<"call", "print", "none">>

ShadowProbes ==
    Concat([n \in 1..Len(ShadowNames) |->
      Concat([l \in 1..Len(Laters) |->
                <<ShadowProbe(ShadowNames[n], FALSE, Laters[l]),
                  ShadowProbe(ShadowNames[n], TRUE, Laters[l])>>])])

\* The type field of a pylint message.
MessageTypes == <<"fatal", "error", "warning", "convention", "refactor", "info">>
\* Symbols of the bridge's two sets, and some of neither.
MessageSymbols ==
    <<"undefined-variable", "used-before-assignment", "no-member", "not-callable",
      "unexpected-keyword-arg", "too-many-function-args", "too-few-function-args",
      "invalid-sequence-index", "invalid-slice-index", "attribute-error", "import-error",
      "no-name-in-module", "return-outside-function", "yield-outside-function",
      "continue-outside-loop", "break-outside-loop",
      "missing-kwoa", "unsupported-assignment-operation", "unsupported-delete-operation",
      "unsupported-membership-test", "unsubscriptable-object", "undefined-loop-variable",
      "return-arg-in-generator", "nonlocal-without-binding",
      "unused-variable", "no-value-for-parameter", "line-too-long">>
\* The names a message quotes: one the snippet assigns, one it does not, none.
MessageNames == << <<"x">>, <<"y">>, <<>> >>

\*  1 def f():
\*  2     x = 1
\*  3 print(x)
MessageProbe(type, symbol, names) ==
    Parsed("message",
           Module(<<FunctionDef("f", arguments(<<>>, <<>>),
                                <<Assign(<<NameStore("x", 2)>>, Constant("1", 2), 2)>>, 1),
                    Expr(Call(Name("print", 3), <<Name("x", 3)>>, 3), 3)>>),
           <<Docstring, PylintMessage(type, symbol, "Message text", names, 3)>>)

MessageProbes ==
    Concat([t \in 1..Len(MessageTypes) |->
      Concat([y \in 1..Len(MessageSymbols) |->
                [n \in 1..Len(MessageNames) |->
                    MessageProbe(MessageTypes[t], MessageSymbols[y], MessageNames[n])]])])

\*  1 def run(n):
\*  2     return n
\*  3     <block>
UnreachableProbe(block) ==
    Parsed("unreachable",
           Module(<<FunctionDef("run", arguments(<<arg("n", 1)>>, <<>>),
                                <<Return(Name("n", 2), 2)>> \o block, 1)>>),
           <<Docstring>>)

UnreachableProbes ==
    LET blocks == AllBlocks("handler", 3)
    IN  [i \in 1..Len(blocks) |-> UnreachableProbe(blocks[i])]

\* open("a")
OpenCall(ln) == Call(Name("open", ln), <<Constant("a", ln)>>, ln)
\* f.close()
CloseCall(ln) == Expr(Call(Attribute(Name("f", ln), "close", ln), <<>>, ln), ln)
\* f = open("a")
AssignOpen(ln) == Assign(<<NameStore("f", ln)>>, OpenCall(ln), ln)
\* with open("a") as f:
\*     pass
WithOpen(ln) ==
    With(<<withitem(OpenCall(ln), NameStore("f", ln))>>, <<Pass(ln + 1)>>, ln)

\* The ways a snippet uses open(): as a with item, assigned and closed,
\* assigned and left open, not assigned.
ResourceBodies(ln) ==
    << <<WithOpen(ln)>>,
       <<AssignOpen(ln), CloseCall(ln + 1)>>,
       <<AssignOpen(ln)>>,
       <<Expr(OpenCall(ln), ln)>> >>

\*  1 <use of open>                or  1 def run(n):
\*                                     2     <use of open>
ResourceProbe(body, nested) ==
    Parsed("resource",
           Module(IF nested
                  THEN <<FunctionDef("run", arguments(<<arg("n", 1)>>, <<>>), body, 1)>>
                  ELSE body),
           <<Docstring>>)

ResourceProbes ==
    Concat([b \in 1..Len(ResourceBodies(1)) |->
              <<ResourceProbe(ResourceBodies(1)[b], FALSE),
                ResourceProbe(ResourceBodies(2)[b], TRUE)>>])

Probes ==
    FunctionProbes \o ShadowProbes \o ResourceProbes \o UnreachableProbes \o LoopProbes
    \o HandlerProbes \o MessageProbes

\* The snippets a request can carry: those posted, then the generated ones.
Snippets == Posted \o Probes


(***************************************************************************)
(* _run_ast_analysis.  check_fault is the number (1..6) of the check of    *)
(* the battery that raises an exception on this run, 0 when none does.     *)
(***************************************************************************)
NumChecks == 6

CheckNames ==
    <<"_check_mutable_defaults", "_check_infinite_loops", "_check_exception_handling",
      "_check_resource_management", "_check_unreachable_code", "_check_shadowing_builtins">>

\* What each check of the battery appends, in the order the battery calls them.
CheckResults(tree, functions) ==
    <<_check_mutable_defaults(tree, functions),
      _check_infinite_loops(tree),
      _check_exception_handling(tree),
      _check_resource_management(tree),
      _check_unreachable_code(tree),
      _check_shadowing_builtins(tree)>>

SystemFinding(message, detail) == Finding(0, message, detail, FALSE, RUNTIME_ERROR, "system")

\* The findings the try block has appended when control leaves it: those of
\* every check, or of the checks called before the one that raises.
BatteryFindings(tree, functions, check_fault) ==
    Concat(SubSeq(CheckResults(tree, functions), 1,
                  IF check_fault = 0 THEN NumChecks ELSE check_fault - 1))

_run_ast_analysis(snippet, functions, check_fault) ==
    IF snippet.parse = "ok"
    THEN BatteryFindings(snippet.tree, functions, check_fault)
         \o (IF check_fault = 0 THEN <<>>
             ELSE <<SystemFinding("Error during AST analysis", <<"MemoryError">>)>>)
    ELSE IF snippet.parse = "SyntaxError"
    THEN <<Finding(snippet.lineno, "Syntax error", <<>>, TRUE, SYNTAX_ERROR, "ast")>>
    ELSE <<SystemFinding("Error during AST analysis", <<snippet.parse>>)>>

(***************************************************************************)
(* The pylint bridge: the linter's output and its mapping to findings.     *)
(***************************************************************************)
definite_error_symbols ==
    {"undefined-variable", "used-before-assignment",
     "no-member", "not-callable", "unexpected-keyword-arg",
     "too-many-function-args", "too-few-function-args",
     "invalid-sequence-index", "invalid-slice-index",
     "attribute-error", "import-error", "no-name-in-module",
     "return-outside-function", "yield-outside-function",
     "continue-outside-loop", "break-outside-loop"}

potential_error_symbols ==
    {"missing-kwoa", "unsupported-assignment-operation",
     "unsupported-delete-operation", "unsupported-membership-test",
     "unsubscriptable-object", "undefined-loop-variable",
     "return-arg-in-generator", "nonlocal-without-binding"}

\* str.lower on a message type.
Lower(type) ==
    CASE type = "Error" -> "error"
      [] type = "Warning" -> "warning"
      [] OTHER -> type

\* message.split("'"): the pieces of the message text around its quotes.
SplitQuotes(msg) == <<msg.text>> \o Concat([i \in 1..Len(msg.names) |-> <<msg.names[i], "">>])

\* A mapping that files the linter's own syntax-error message under syntax_error.
PylintCategoryWithSyntax(msg, variables) ==
    IF msg.symbol = "syntax-error" THEN SYNTAX_ERROR
    ELSE IF Lower(msg.type) = "error" \/ msg.symbol \in definite_error_symbols
    THEN RUNTIME_ERROR
    ELSE IF msg.symbol \in potential_error_symbols THEN POTENTIAL_ERROR
    ELSE BAD_HABIT

PylintCategory(msg, variables) ==
    IF Lower(msg.type) = "error" \/ msg.symbol \in definite_error_symbols
    THEN RUNTIME_ERROR
    ELSE IF msg.symbol \in potential_error_symbols
    THEN IF msg.symbol = "undefined-variable"
         THEN LET var_name == SplitQuotes(msg)
              IN  IF Len(var_name) > 1 /\ var_name[2] \in DOMAIN variables
                  THEN POTENTIAL_ERROR
                  ELSE RUNTIME_ERROR
         ELSE POTENTIAL_ERROR
    ELSE BAD_HABIT

\* A bridge that keeps only the messages of type error.
IsRetainedErrorsOnly(msg) == Lower(msg.type) = "error"

IsRetained(msg) ==
    \/ Lower(msg.type) = "error"
    \/ msg.symbol \in definite_error_symbols
    \/ msg.symbol \in potential_error_symbols

\* The loop over the decoded output.  An element that is no JSON object has no
\* get method: the AttributeError leaves the loop for the outer handler.
RECURSIVE PylintLoopKeepingAll(_, _, _)
\* A loop that appends a finding for every message.
PylintLoopKeepingAll(items, variables, out) ==
    IF items = <<>> THEN [out |-> out, raised |-> "none"]
    ELSE IF ~Head(items).isdict THEN [out |-> out, raised |-> "AttributeError"]
    ELSE PylintLoopKeepingAll(Tail(items), variables,
            Append(out, Finding(Head(items).line, Head(items).text, Head(items).names,
                                TRUE, PylintCategory(Head(items), variables), "pylint")))

RECURSIVE PylintLoop(_, _, _)
PylintLoop(items, variables, out) ==
    IF items = <<>> THEN [out |-> out, raised |-> "none"]
    ELSE IF ~Head(items).isdict THEN [out |-> out, raised |-> "AttributeError"]
    ELSE PylintLoop(Tail(items), variables,
            IF IsRetained(Head(items))
            THEN Append(out, Finding(Head(items).line, Head(items).text, Head(items).names,
                                     TRUE, PylintCategory(Head(items), variables), "pylint"))
            ELSE out)

\* Lines 127-187: what the bridge appends for the captured standard output.
ProcessStdout(stdout, variables) ==
    IF stdout.kind = "empty" THEN <<>>
    ELSE IF stdout.kind = "garbage"
    THEN <<SystemFinding("Failed to parse pylint output", <<>>)>>
    ELSE IF ~stdout.iterable
    THEN <<SystemFinding("Error running pylint", <<"TypeError">>)>>
    ELSE LET loop == PylintLoop(stdout.items, variables, <<>>)
         IN  IF loop.raised = "none" THEN loop.out
             ELSE loop.out \o <<SystemFinding("Error running pylint", <<loop.raised>>)>>

\* Lines 126-195: what the bridge appends once subprocess.run has returned.
\* Only result.stdout is read; the exit status is not.
ProcessOutput(result, variables) == ProcessStdout(result.stdout, variables)

(***************************************************************************)
(* The pylint executable, as the bridge sees it.  mode is how the tool     *)
(* behaves on this run; content is the snippet held by the file it is      *)
(* given (0: no such file).                                                *)
(***************************************************************************)
LintModes ==
    {"normal", "nullline", "empty", "garbage", "scalar", "badrecord", "missing", "hang"}

FileMessages(content) ==
    IF content = 0
    THEN <<PylintMessage("fatal", "fatal", "No module named", <<>>, 1)>>
    ELSE Snippets[content].messages

\* pylint's exit status: one bit per category of message issued.
ExitBit(type) ==
    CASE type = "fatal" -> 1
      [] type = "error" -> 2
      [] type = "warning" -> 4
      [] type = "refactor" -> 8
      [] type = "convention" -> 16
      [] OTHER -> 0

RECURSIVE SumBits(_)
SumBits(types) ==
    IF types = {} THEN 0
    ELSE LET t == CHOOSE x \in types : TRUE IN ExitBit(t) + SumBits(types \ {t})

ExitStatus(messages) == SumBits({messages[i].type : i \in 1..Len(messages)})

JsonList(items) == [kind |-> "json", iterable |-> TRUE, items |-> items]

\* Records whose line is null: msg.get('line', 0) then gives None.
WithoutLines(messages) == [i \in 1..Len(messages) |-> [messages[i] EXCEPT !.line = NoLine]]

\* The CompletedProcess subprocess.run returns.
PylintRun(mode, content) ==
    CASE mode = "normal" ->
            [stdout |-> JsonList(FileMessages(content)),
             returncode |-> ExitStatus(FileMessages(content))]
      [] mode = "nullline" ->
            [stdout |-> JsonList(WithoutLines(FileMessages(content))),
             returncode |-> ExitStatus(FileMessages(content))]
      [] mode = "badrecord" ->
            [stdout |-> JsonList(FileMessages(content) \o <<[isdict |-> FALSE]>>),
             returncode |-> ExitStatus(FileMessages(content))]
      [] mode = "scalar" ->
            [stdout |-> [kind |-> "json", iterable |-> FALSE, items |-> <<>>],
             returncode |-> 0]
      [] mode = "garbage" -> [stdout |-> [kind |-> "garbage"], returncode |-> 1]
      [] OTHER -> [stdout |-> [kind |-> "empty"], returncode |-> 32]

NoResult == [stdout |-> [kind |-> "none"], returncode |-> 0]

(***************************************************************************)
(* The request handler's passes over the returned list.                    *)
(***************************************************************************)

\* generate_explanation for one finding; failed when the call to the remote
\* generator raised.
generate_explanation(issue, failed) ==
    IF failed
    THEN [explanation |-> "Failed to generate explanation.", fix |-> "None"]
    ELSE [explanation |-> "text", fix |-> "text"]

\* The explanation loop: every finding whose source is not 'system' gets the
\* generator's answer; fails holds the positions where the generator raised.
Explain(feedback, fails) ==
    [i \in 1..Len(feedback) |->
        IF feedback[i].source # "system"
        THEN [feedback[i] EXCEPT
                !.explanation = generate_explanation(feedback[i], i \in fails).explanation,
                !.fix = generate_explanation(feedback[i], i \in fails).fix]
        ELSE feedback[i]]

\* The category pass.  No producer of findings sets a certainty key, so only
\* the default branch can apply.
Normalise(feedback) ==
    [i \in 1..Len(feedback) |->
        IF feedback[i].category = "absent"
        THEN [feedback[i] EXCEPT !.category = RUNTIME_ERROR]
        ELSE feedback[i]]

category_priority(category) ==
    CASE category = SYNTAX_ERROR -> 0
      [] category = FATAL_ERROR -> 1
      [] category = RUNTIME_ERROR -> 2
      [] category = POTENTIAL_ERROR -> 3
      [] category = BAD_HABIT -> 4
      [] OTHER -> 999

\* A sort key that leaves the line out.
KeyLessByCategory(x, y) == category_priority(x.category) < category_priority(y.category)

\* The sort key's order: tuples (priority, line) compared left to right.
KeyLess(x, y) ==
    \/ category_priority(x.category) < category_priority(y.category)
    \/ /\ category_priority(x.category) = category_priority(y.category)
       /\ x.line < y.line

\* Comparing the keys raises TypeError when the priorities tie and exactly one
\* of the two lines is None; a sort cannot complete without that comparison.
SortRaises(feedback) ==
    \E i, j \in 1..Len(feedback) :
        /\ category_priority(feedback[i].category) = category_priority(feedback[j].category)
        /\ feedback[i].line = NoLine
        /\ feedback[j].line # NoLine

\* x put into the sorted sequence s, after the elements it does not precede.
InsertByKey(s, x) ==
    LET later == {i \in 1..Len(s) : KeyLess(x, s[i])}
        pos == IF later = {} THEN Len(s) + 1
               ELSE CHOOSE i \in later : \A k \in later : i <= k
    IN  SubSeq(s, 1, pos - 1) \o <<x>> \o SubSeq(s, pos, Len(s))

RECURSIVE SortInto(_, _)
SortInto(done, rest) ==
    IF rest = <<>> THEN done ELSE SortInto(InsertByKey(done, Head(rest)), Tail(rest))

\* feedback.sort(key=...): a stable sort by (priority, line).
SortFeedback(feedback) == SortInto(<<>>, feedback)


(***************************************************************************)
(* api/index.py: the handler of the serverless deployment.  It checks the  *)
(* code with compile(), calls the analyzer, and falls back on an analysis  *)
(* of its own when the analyzer raises.                                    *)
(***************************************************************************)

\* A finding the handler builds itself: it has no is_bad_habit key.
HandlerFinding(line, message, detail, category, source) ==
    [line |-> line, message |-> message, detail |-> detail, category |-> category,
     source |-> source, explanation |-> "absent", fix |-> "absent"]

fallback_builtins ==
    {"print", "len", "range", "str", "int", "float", "list", "dict", "set", "tuple",
     "sum", "min", "max", "open", "type"}

\* var_name.startswith('__'), on the names that occur in the snippets.
IsDunder(id) == id \in {"__name__", "__file__", "__doc__"}

\* node.test.value == True: the constants True and 1 compare equal to True.
EqualsTrue(value) == value \in {"True", "1"}

\* The first pass of the fallback: the names assigned and the functions defined.
defined_vars(nodes) ==
    UNION {{nodes[j].targets[i].id :
               i \in {k \in 1..Len(nodes[j].targets) : nodes[j].targets[k].kind = "Name"}} :
           j \in {k \in 1..Len(nodes) : nodes[k].kind = "Assign"}}

defined_functions(nodes) ==
    {nodes[j].name : j \in {k \in 1..Len(nodes) : nodes[k].kind = "FunctionDef"}}

\* One node of the second pass.  st.builtins tells whether the local variable
\* builtins is bound: it is assigned only in the branch of a loaded name, and
\* read in the branch of an attribute.
FallbackStep(st, node, vars, funcs) ==
    IF st.raised # "none" THEN st
    ELSE IF node.kind = "Name" /\ node.ctx = "Load"
    THEN [st EXCEPT
            !.builtins = TRUE,
            !.out = IF /\ node.id \notin vars
                       /\ node.id \notin funcs
                       /\ node.id \notin fallback_builtins
                       /\ ~IsDunder(node.id)
                    THEN Append(@, HandlerFinding(node.lineno, "Undefined variable",
                                                  <<node.id>>, RUNTIME_ERROR, "analyzer"))
                    ELSE @]
    ELSE IF node.kind = "Attribute"
    THEN IF node.value.kind # "Name" \/ node.value.id \in vars THEN st
         ELSE IF ~st.builtins THEN [st EXCEPT !.raised = "UnboundLocalError"]
         ELSE IF node.value.id \notin fallback_builtins
         THEN [st EXCEPT !.out =
                 Append(@, HandlerFinding(node.lineno, "has no member",
                                          <<node.value.id, node.attr>>,
                                          RUNTIME_ERROR, "analyzer"))]
         ELSE st
    ELSE IF node.kind = "While" /\ node.test.kind = "Constant" /\ EqualsTrue(node.test.value)
    THEN [st EXCEPT !.out =
            Append(@, HandlerFinding(node.lineno, "Infinite loop detected", <<>>,
                                     FATAL_ERROR, "analyzer"))]
    ELSE IF node.kind = "ExceptHandler" /\ node.type.kind = "None"
    THEN [st EXCEPT !.out =
            Append(@, HandlerFinding(node.lineno, "Catching all exceptions (bare except)",
                                     <<>>, BAD_HABIT, "analyzer"))]
    ELSE IF node.kind = "FunctionDef"
    THEN [st EXCEPT !.out = @ \o
            Concat([i \in 1..Len(node.args.defaults) |->
                       IF IsMutableLiteral(node.args.defaults[i])
                       THEN <<HandlerFinding(node.lineno, "Using mutable default argument",
                                             <<node.name>>, POTENTIAL_ERROR, "analyzer")>>
                       ELSE <<>>])]
    ELSE st

RECURSIVE FallbackFold(_, _, _, _)
FallbackFold(st, nodes, vars, funcs) ==
    IF nodes = <<>> THEN st
    ELSE FallbackFold(FallbackStep(st, Head(nodes), vars, funcs), Tail(nodes), vars, funcs)

\* Lines 100-174: what the fallback leaves in the handler's list.
FallbackFindings(tree) ==
    LET nodes == Walk(tree)
        st == FallbackFold([out |-> <<>>, builtins |-> FALSE, raised |-> "none"], nodes,
                           defined_vars(nodes), defined_functions(nodes))
    IN  IF st.raised = "none" THEN st.out
        ELSE Append(st.out, HandlerFinding(1, "Error analyzing code", <<st.raised>>,
                                           RUNTIME_ERROR, "system"))

\* The texts generate_explanation of api/index.py returns in place of an
\* explanation it could not produce.
index_placeholders == {"Error calling Claude API", "Failed to generate explanation"}

\* generate_explanation of api/index.py for one finding; failed when the call
\* to the remote generator raised.  A finding whose line is None fails the
\* comparison line_num > 0, which the outer handler of the function catches.
index_generate_explanation(issue, failed) ==
    IF issue.line = NoLine
    THEN [explanation |-> "Failed to generate explanation", fix |-> "None"]
    ELSE IF failed
    THEN [explanation |-> "Error calling Claude API", fix |-> "None"]
    ELSE [explanation |-> "text", fix |-> "text"]

\* The explanation loop, were a failure of the generator to leave the loop
\* for the handler of lines 188-198: the findings after the failed one keep no
\* explanation and one finding of the system is appended.
IndexExplainAborting(feedback, fails) ==
    LET stop == IF fails = {} THEN Len(feedback) + 1
                ELSE CHOOSE i \in fails : \A j \in fails : i <= j
        done == [i \in 1..Len(feedback) |->
                    IF feedback[i].source # "system" /\ i < stop
                    THEN [feedback[i] EXCEPT !.explanation = "text", !.fix = "text"]
                    ELSE feedback[i]]
    IN  IF fails = {} THEN done
        ELSE Append(done, [line |-> 0, message |-> "Error generating explanations",
                           detail |-> <<>>, category |-> SYNTAX_ERROR,
                           source |-> "system",
                           explanation |-> "Failed to generate explanations",
                           fix |-> "None"])

\* The explanation loop of api/index.py (lines 180-187): every finding whose
\* source is not 'system' gets the generator's answer; fails holds the
\* positions where the call to the remote generator raised.
IndexExplain(feedback, fails) ==
    [i \in 1..Len(feedback) |->
        IF feedback[i].source # "system"
        THEN [feedback[i] EXCEPT
                !.explanation = index_generate_explanation(feedback[i], i \in fails).explanation,
                !.fix = index_generate_explanation(feedback[i], i \in fails).fix]
        ELSE feedback[i]]

\* The finding of the response the outermost handler sends with status 500.
ServerErrorFinding(error) ==
    HandlerFinding(0, "Server error", <<error>>, SYNTAX_ERROR, "system")

(***************************************************************************)
(* Bounds of the model.                                                    *)
(***************************************************************************)
\* Requests in flight at once.
NumReq == 2
\* Calls of analyze on one analyzer object.
MaxCalls == 2
\* Findings of one request whose explanation the generator fails to produce.
MaxExplainFailures == 1

Procs == 1..NumReq
\* Names the temporary-file facility can hand out: one per request suffices,
\* a request holding at most one file at a time.
Paths == 1..NumReq
\* temp_file_path before its assignment.
Unbound == 0

TmpOutcomes == {"ok", "create_fails", "write_fails"}

\* The two deployments of the /analyze route: app.py and api/index.py.
Routes == {"app", "index"}
\* The list the handler of api/index.py creates for itself, among the list
\* objects of a request: those of the calls of analyze come first.
HandlerList == MaxCalls + 1

\* A request: the snippet posted, and how the environment behaves while it is
\* analysed (the linter, the temporary file, a check that raises).
Scenarios ==
    {sc \in [route : Routes, code : 1..Len(Posted), lint : LintModes, tmp : TmpOutcomes,
             check_fault : 0..NumChecks] :
        /\ sc.check_fault # 0 => Snippets[sc.code].parse = "ok"
        /\ sc.tmp # "ok" => sc.lint = "normal"
        /\ Snippets[sc.code].parse \notin {"ok", "SyntaxError"}
              => sc.lint = "normal" /\ sc.tmp = "ok"
        \* api/index.py does not call the analyzer on code compile() rejects
        /\ (sc.route = "index" /\ Snippets[sc.code].compile # "ok")
              => sc.lint = "normal" /\ sc.tmp = "ok" /\ sc.check_fault = 0}

\* The requests of the concurrent specification.
ConcScenarios ==
    {sc \in Scenarios :
        /\ sc.route = "app"
        /\ sc.check_fault = 0
        /\ \/ Snippets[sc.code].text = "leak" /\ sc.lint = "normal"
                 /\ sc.tmp \in {"ok", "write_fails"}
           \/ Snippets[sc.code].text = "unbalanced" /\ sc.lint \in {"normal", "missing"}
                 /\ sc.tmp = "ok"}

VARIABLES
    pc,               \* where each request stands; "raised": analyze raised;
                      \* "collected": api/index.py holds findings of its own
    scen,             \* the scenario of each request
    analyzer,         \* the fields of each request's PythonHabitAnalyzer object
    heap,             \* the list objects of each request, by reference
    temp_file_path,   \* the bridge's local variable
    result,           \* the bridge's local variable: what subprocess.run returned
    returned,         \* the values analyze has returned, with the list each is
    raised,           \* the last exception that left analyze or the handler's
                      \* body, or "none"
    response,         \* the feedback of the JSON response
    explain_failed,   \* the positions where the explanation generator raised
    files,            \* the temporary directory: path -> snippet held
    anthropicClient   \* whether the module-level client was initialised

vars == <<pc, scen, analyzer, heap, temp_file_path, result, returned, raised, response,
          explain_failed, files, anthropicClient>>

\* PythonHabitAnalyzer.__init__: the list of reference 0 is the first feedback.
NewAnalyzer ==
    [feedback |-> 0, variables |-> EmptyDict, functions |-> EmptyDict, control_flow |-> <<>>]

NoScenario == [route |-> "app", code |-> 0, lint |-> "normal", tmp |-> "ok", check_fault |-> 0]

InitWith(active) ==
    /\ pc = [r \in Procs |-> IF r \in active THEN "idle" ELSE "off"]
    /\ scen = [r \in Procs |-> NoScenario]
    /\ analyzer = [r \in Procs |-> NewAnalyzer]
    /\ heap = [r \in Procs |-> [k \in 0..HandlerList |-> <<>>]]
    /\ temp_file_path = [r \in Procs |-> Unbound]
    /\ result = [r \in Procs |-> NoResult]
    /\ returned = [r \in Procs |-> <<>>]
    /\ raised = [r \in Procs |-> "none"]
    /\ response = [r \in Procs |-> <<>>]
    /\ explain_failed = [r \in Procs |-> {}]
    /\ files = EmptyDict
    /\ anthropicClient \in BOOLEAN

Init == InitWith({1})
InitConcurrent == InitWith(Procs)

\* The handler reads the posted code; that of app.py constructs its analyzer,
\* that of api/index.py first checks the code with compile().
Receive(r, scenarios) ==
    /\ pc[r] = "idle"
    /\ \E sc \in scenarios :
          /\ scen' = [scen EXCEPT ![r] = sc]
          /\ pc' = [pc EXCEPT ![r] = IF sc.route = "index" THEN "compile"
                                     ELSE "constructed"]
    /\ analyzer' = [analyzer EXCEPT ![r] = NewAnalyzer]
    /\ UNCHANGED <<heap, temp_file_path, result, returned, raised, response,
                   explain_failed, files, anthropicClient>>

Request(r) == Receive(r, Scenarios)
ConcurrentRequest(r) == Receive(r, ConcScenarios)

\* analyze without its reset: the fields keep the objects they name.
KeepFields(self, new_ref) == self

\* Lines 44-48 of analyze on the call that allocates list new_ref: the fields
\* are rebound to fresh empty objects.
ResetFields(self, new_ref) ==
    [feedback |-> new_ref, variables |-> EmptyDict, functions |-> EmptyDict,
     control_flow |-> <<>>]

\* analyze up to the bridge (lines 44-59): reset, parse and context, checks.
AnalyzeCall(r) ==
    LET snippet == Snippets[scen[r].code]
        call == Len(returned[r]) + 1
        fresh == ResetFields(analyzer[r], call)
        \* the list self.feedback names after the reset
        list == IF fresh.feedback = call THEN <<>> ELSE heap[r][fresh.feedback]
        self == IF snippet.parse = "ok" THEN _build_context(fresh, snippet.tree) ELSE fresh
    IN  /\ temp_file_path' = [temp_file_path EXCEPT ![r] = Unbound]
        /\ result' = [result EXCEPT ![r] = NoResult]
        /\ IF snippet.parse \in {"ok", "SyntaxError"}
           THEN /\ analyzer' = [analyzer EXCEPT ![r] = self]
                /\ heap' = [heap EXCEPT ![r][self.feedback] =
                              list \o _run_ast_analysis(snippet, self.functions,
                                                        scen[r].check_fault)]
                /\ pc' = [pc EXCEPT ![r] = "tempfile"]
                /\ UNCHANGED raised
           ELSE \* ast.parse raised an exception that is no SyntaxError
                /\ analyzer' = [analyzer EXCEPT ![r] = fresh]
                /\ heap' = [heap EXCEPT ![r][fresh.feedback] = list]
                /\ pc' = [pc EXCEPT ![r] = "raised"]
                /\ raised' = [raised EXCEPT ![r] = snippet.parse]
        /\ UNCHANGED <<scen, returned, response, explain_failed, files, anthropicClient>>

\* The handler's call of analyze.
BeginAnalyze(r) == pc[r] = "constructed" /\ AnalyzeCall(r)

\* A further call of analyze on the same object with the same code.
Reanalyze(r) == pc[r] = "returned" /\ Len(returned[r]) < MaxCalls /\ AnalyzeCall(r)

\* A fixed file name, the same for every request.
SharedPath(fs) == {1}

\* The names NamedTemporaryFile can choose: those of no existing file.
FreshPaths(fs) == Paths \ DOMAIN fs

\* The finally clause: os.path.exists and os.remove.
Cleanup(fs, path) == [p \in DOMAIN fs \ {path} |-> fs[p]]

\* return self.feedback: the caller gets the list object; value records what
\* it held at that moment.
ReturnFeedback(r, list) ==
    /\ pc' = [pc EXCEPT ![r] = "returned"]
    /\ returned' = [returned EXCEPT ![r] =
                      Append(@, [ref |-> analyzer[r].feedback, value |-> list])]

\* Lines 116-120: the temporary file is created and the code written to it.
WriteTempFile(r) ==
    /\ pc[r] = "tempfile"
    /\ LET ref == analyzer[r].feedback
           failure == Append(heap[r][ref],
                             SystemFinding("Error running pylint", <<"OSError">>))
       IN  \/ /\ scen[r].tmp = "ok"
              /\ \E p \in FreshPaths(files) :
                    /\ files' = Put(files, p, scen[r].code)
                    /\ temp_file_path' = [temp_file_path EXCEPT ![r] = p]
              /\ pc' = [pc EXCEPT ![r] = "lint"]
              /\ UNCHANGED <<heap, returned, raised>>
           \/ \* no file could be created: the handler appends its finding, and
              \* the finally clause reads temp_file_path, which was never bound
              /\ scen[r].tmp = "create_fails"
              /\ heap' = [heap EXCEPT ![r][ref] = failure]
              /\ pc' = [pc EXCEPT ![r] = "raised"]
              /\ raised' = [raised EXCEPT ![r] = "UnboundLocalError"]
              /\ UNCHANGED <<files, temp_file_path, returned>>
           \/ \* the file was created and writing it failed
              /\ scen[r].tmp = "write_fails"
              /\ \E p \in FreshPaths(files) :
                    /\ files' = Cleanup(Put(files, p, scen[r].code), p)
                    /\ temp_file_path' = [temp_file_path EXCEPT ![r] = p]
              /\ heap' = [heap EXCEPT ![r][ref] = failure]
              /\ ReturnFeedback(r, failure)
              /\ UNCHANGED raised
    /\ UNCHANGED <<scen, analyzer, result, response, explain_failed, anthropicClient>>

\* Lines 122-124: subprocess.run, which returns when the linter has exited.
RunPylint(r) ==
    /\ pc[r] = "lint"
    /\ scen[r].lint # "hang"
    /\ LET ref == analyzer[r].feedback
           failure == Append(heap[r][ref],
                             SystemFinding("Error running pylint", <<"FileNotFoundError">>))
       IN  IF scen[r].lint = "missing"
           THEN \* no pylint executable: the handler, then the finally clause
                /\ heap' = [heap EXCEPT ![r][ref] = failure]
                /\ files' = Cleanup(files, temp_file_path[r])
                /\ ReturnFeedback(r, failure)
                /\ UNCHANGED result
           ELSE /\ result' = [result EXCEPT ![r] =
                                PylintRun(scen[r].lint, Get(files, temp_file_path[r], 0))]
                /\ pc' = [pc EXCEPT ![r] = "output"]
                /\ UNCHANGED <<heap, files, returned>>
    /\ UNCHANGED <<scen, analyzer, temp_file_path, raised, response, explain_failed,
                   anthropicClient>>

\* Lines 126-199 and 64: the output is processed, the file removed, the list
\* returned.
FinishPylint(r) ==
    /\ pc[r] = "output"
    /\ LET ref == analyzer[r].feedback
           list == heap[r][ref] \o ProcessOutput(result[r], analyzer[r].variables)
       IN  /\ heap' = [heap EXCEPT ![r][ref] = list]
           /\ files' = Cleanup(files, temp_file_path[r])
           /\ ReturnFeedback(r, list)
    /\ UNCHANGED <<scen, analyzer, temp_file_path, result, raised, response,
                   explain_failed, anthropicClient>>

\* The sets of positions where the generator may raise on this request.
ExplainFailures(feedback) ==
    {fails \in SUBSET {i \in 1..Len(feedback) : feedback[i].source # "system"} :
        Cardinality(fails) <= MaxExplainFailures}

\* The passes of the handler over the returned list, before the sort.
Prepared(feedback, client, fails) ==
    Normalise(IF client THEN Explain(feedback, fails) ELSE feedback)

\* The list the handler holds: the one the last call of analyze returned.
LastReturned(r) == returned[r][Len(returned[r])].ref

\* The handler after analyze (lines 694-733): explanations, categories, the
\* sort in place, the response.  failures holds the sets of positions where
\* the generator may raise on this request.
RespondWith(r, failures) ==
    /\ pc[r] = "returned"
    /\ scen[r].route = "app"
    /\ LET ref == LastReturned(r)
       IN  \E fails \in failures :
              /\ anthropicClient \/ fails = {}
              /\ explain_failed' = [explain_failed EXCEPT ![r] = fails]
              /\ LET prepared == Prepared(heap[r][ref], anthropicClient, fails)
                 IN  IF SortRaises(prepared)
                     THEN \* the sort raises and the handler ends in an error
                          /\ heap' = [heap EXCEPT ![r][ref] = prepared]
                          /\ pc' = [pc EXCEPT ![r] = "failed"]
                          /\ raised' = [raised EXCEPT ![r] = "TypeError"]
                          /\ UNCHANGED response
                     ELSE /\ heap' = [heap EXCEPT ![r][ref] = SortFeedback(prepared)]
                          /\ response' = [response EXCEPT ![r] = SortFeedback(prepared)]
                          /\ pc' = [pc EXCEPT ![r] = "responded"]
                          /\ UNCHANGED raised
    /\ UNCHANGED <<scen, analyzer, temp_file_path, result, returned, files, anthropicClient>>

Respond(r) == RespondWith(r, ExplainFailures(heap[r][LastReturned(r)]))

\* In the concurrent specification the generator, when there is one, answers.
ConcurrentRespond(r) == RespondWith(r, {{}})

\* The steps of analyze.
Analysis(r) ==
    \/ BeginAnalyze(r)
    \/ WriteTempFile(r)
    \/ RunPylint(r)
    \/ FinishPylint(r)

\* The outermost handler of api/index.py (lines 235-244): status 500 and one
\* finding.
ServerError(r, error) ==
    /\ pc' = [pc EXCEPT ![r] = "responded"]
    /\ raised' = [raised EXCEPT ![r] = error]
    /\ response' = [response EXCEPT ![r] = <<ServerErrorFinding(error)>>]

\* api/index.py lines 76-95: the handler's own list, and compile().
IndexCompile(r) ==
    /\ pc[r] = "compile"
    /\ LET snippet == Snippets[scen[r].code]
       IN  CASE snippet.compile = "ok" ->
                   /\ pc' = [pc EXCEPT ![r] = "constructed"]
                   /\ UNCHANGED <<heap, raised, response>>
             [] snippet.compile = "SyntaxError" ->
                   /\ heap' = [heap EXCEPT ![r][HandlerList] =
                                 <<HandlerFinding(snippet.lineno, "SyntaxError",
                                                  <<snippet.text>>, SYNTAX_ERROR,
                                                  "analyzer")>>]
                   /\ pc' = [pc EXCEPT ![r] = "collected"]
                   /\ UNCHANGED <<raised, response>>
             [] OTHER ->
                   /\ ServerError(r, snippet.compile)
                   /\ UNCHANGED heap
    /\ UNCHANGED <<scen, analyzer, temp_file_path, result, returned, explain_failed, files,
                   anthropicClient>>

\* api/index.py lines 97-174: analyze raised, and the handler analyses the
\* code itself, into its own list.
IndexFallback(r) ==
    /\ pc[r] = "raised"
    /\ scen[r].route = "index"
    /\ heap' = [heap EXCEPT ![r][HandlerList] = FallbackFindings(Snippets[scen[r].code].tree)]
    /\ pc' = [pc EXCEPT ![r] = "collected"]
    /\ UNCHANGED <<scen, analyzer, temp_file_path, result, returned, raised, response,
                   explain_failed, files, anthropicClient>>

\* The list the handler's variable feedback names.
HandlerFeedback(r) == IF pc[r] = "collected" THEN HandlerList ELSE LastReturned(r)

IndexPrepared(feedback, client, fails) ==
    Normalise(IF client THEN IndexExplain(feedback, fails) ELSE feedback)

\* api/index.py lines 176-244: explanations, categories, the sort in place,
\* the response; an exception of the sort reaches the outermost handler.
IndexRespond(r) ==
    /\ pc[r] \in {"returned", "collected"}
    /\ scen[r].route = "index"
    /\ LET ref == HandlerFeedback(r)
       IN  \E fails \in ExplainFailures(heap[r][ref]) :
              /\ anthropicClient \/ fails = {}
              /\ explain_failed' = [explain_failed EXCEPT ![r] = fails]
              /\ LET prepared == IndexPrepared(heap[r][ref], anthropicClient, fails)
                 IN  IF SortRaises(prepared)
                     THEN /\ heap' = [heap EXCEPT ![r][ref] = prepared]
                          /\ ServerError(r, "TypeError")
                     ELSE /\ heap' = [heap EXCEPT ![r][ref] = SortFeedback(prepared)]
                          /\ response' = [response EXCEPT ![r] = SortFeedback(prepared)]
                          /\ pc' = [pc EXCEPT ![r] = "responded"]
                          /\ UNCHANGED raised
    /\ UNCHANGED <<scen, analyzer, temp_file_path, result, returned, files, anthropicClient>>

\* The steps of the handler of api/index.py around its call of analyze.
IndexStep(r) == IndexCompile(r) \/ IndexFallback(r) \/ IndexRespond(r)

\* The steps of a request once it is received.
Step(r) == Analysis(r) \/ Respond(r) \/ IndexStep(r)

Next == \E r \in Procs : Request(r) \/ Step(r) \/ Reanalyze(r)

Spec == Init /\ [][Next]_vars

\* subprocess.run returns once the linter process has exited, and a linter
\* that exits is run until it does.
FairSpec == Spec /\ \A r \in Procs : WF_vars(RunPylint(r))

ConcurrentNext == \E r \in Procs : ConcurrentRequest(r) \/ Analysis(r) \/ ConcurrentRespond(r)

ConcurrentSpec == InitConcurrent /\ [][ConcurrentNext]_vars

\* The requests of the specification of the rules: one generated snippet each,
\* in an environment where the linter and the temporary file behave.
ProbeScenarios ==
    {[route |-> "app", code |-> c, lint |-> "normal", tmp |-> "ok", check_fault |-> 0] :
        c \in (Len(Posted) + 1)..Len(Snippets)}

ProbeRequest(r) == Receive(r, ProbeScenarios)

ProbeNext == \E r \in Procs : ProbeRequest(r) \/ Analysis(r) \/ Respond(r)

\* The handler of app.py on each of the generated snippets.
ProbeSpec == Init /\ [][ProbeNext]_vars


(***************************************************************************)
(* Properties.                                                             *)
(***************************************************************************)
Rank(f) == category_priority(f.category)

\* For all i < j: rank(f[i]) < rank(f[j]), or the ranks are equal and
\* f[i].line <= f[j].line.
IsRanked(feedback) ==
    \A i, j \in 1..Len(feedback) :
        i < j => \/ Rank(feedback[i]) < Rank(feedback[j])
                 \/ Rank(feedback[i]) = Rank(feedback[j])
                    /\ feedback[i].line <= feedback[j].line

\* The value the last call of analyze returned.
LastValue(r) == returned[r][Len(returned[r])].value

HasReturned(r) == Len(returned[r]) > 0

\* The message templates of the six structural checks.
CheckMessages ==
    {"mutable default argument", "Infinite loop detected", "bare except: pass",
     "bare except or except Exception", "File opened without context manager",
     "Unreachable code detected", "Variable name shadows a built-in",
     "Function parameter shadows a built-in"}

\* The findings of a list that the pylint bridge appended.
BridgeMessages == {"Error running pylint", "Failed to parse pylint output"}
FromBridge(f) == f.source = "pylint" \/ (f.source = "system" /\ f.message \in BridgeMessages)
BridgeFindings(list) == SelectSeq(list, FromBridge)
SystemFindings(list) == SelectSeq(list, LAMBDA f : f.source = "system")

\* C1: the finding sequence of every /analyze response is sorted by
\* (category rank, line), non-decreasing.
C1_ResponseRanked == \A r \in Procs : pc[r] = "responded" => IsRanked(response[r])

\* C1 witness: a response whose findings analyze returned out of order, two of
\* them in one category on different lines.
C1_Witness ==
    \E r \in Procs :
        /\ pc[r] = "responded"
        /\ HasReturned(r)
        /\ ~IsRanked(LastValue(r))
        /\ \E i, j \in 1..Len(response[r]) :
              /\ response[r][i].category = response[r][j].category
              /\ response[r][i].line < response[r][j].line

\* C2: analyze never raises: no request ends with an exception that left
\* analyze.
C2_AnalyzeNeverRaises == \A r \in Procs : pc[r] # "raised"

\* C3: every call of analyze on one analyzer object with the same input and
\* the same linter output returns the same finding sequence.
C3_Idempotent ==
    \A r \in Procs : \A i, j \in 1..Len(returned[r]) :
        returned[r][i].value = returned[r][j].value

\* C3 witness: a second call has returned on an object whose first call
\* recorded findings and variable bindings.
C3_Witness ==
    \E r \in Procs :
        /\ Len(returned[r]) = 2
        /\ Len(returned[r][1].value) >= 2
        /\ DOMAIN analyzer[r].variables # {}

\* Whether a finding sequence holds exactly one finding of category
\* syntax_error and none of a structural check.
OneSyntaxError(list) ==
    /\ Len(SelectSeq(list, LAMBDA f : f.category = SYNTAX_ERROR)) = 1
    /\ \A i \in 1..Len(list) : list[i].message \notin CheckMessages

\* C4: for an input the parser rejects with a syntax error, the result of the
\* analysis (what analyze returns; in api/index.py, what the handler holds
\* after compile()) and the response hold exactly one finding of category
\* syntax_error and no finding of a structural check.
C4_ParseFailure ==
    \A r \in Procs :
        (pc[r] \notin {"idle", "off"} /\ Snippets[scen[r].code].parse = "SyntaxError") =>
            /\ \A k \in 1..Len(returned[r]) : OneSyntaxError(returned[r][k].value)
            /\ pc[r] = "collected" => OneSyntaxError(heap[r][HandlerList])
            /\ pc[r] = "responded" => OneSyntaxError(response[r])

\* C4 witness: analyze returned for an unparsable input on which the linter
\* reported too, and the handler responded.
C4_Witness ==
    \E r \in Procs :
        /\ pc[r] = "responded"
        /\ Snippets[scen[r].code].parse = "SyntaxError"
        /\ \E i \in 1..Len(response[r]) : response[r][i].source = "pylint"

\* The findings check k produces for the request's snippet.
CheckFindingsOf(r, k) ==
    CheckResults(Snippets[scen[r].code].tree, analyzer[r].functions)[k]

\* C5: when one check raises, the findings of every other check are still
\* produced, and one system finding names the failing check.
C5_CheckIsolated ==
    \A r \in Procs :
        (HasReturned(r) /\ scen[r].check_fault # 0) =>
            /\ \A k \in (1..NumChecks) \ {scen[r].check_fault} :
                  \A i \in 1..Len(CheckFindingsOf(r, k)) :
                      \E j \in 1..Len(LastValue(r)) :
                          LastValue(r)[j] = CheckFindingsOf(r, k)[i]
            /\ \E j \in 1..Len(LastValue(r)) :
                  /\ LastValue(r)[j].source = "system"
                  /\ LastValue(r)[j].detail = <<CheckNames[scen[r].check_fault]>>

\* Whether the request has left the pylint bridge.
BridgeLeft(r) == pc[r] \in {"returned", "responded", "failed", "raised"}

\* C6: on every exit path of the bridge the temporary file no longer exists
\* and the cleanup has not raised.
C6_TempFileRemoved ==
    \A r \in Procs :
        BridgeLeft(r) =>
            /\ temp_file_path[r] \notin DOMAIN files
            /\ raised[r] # "UnboundLocalError"

\* Output that is empty or cannot be read as a JSON list.
Unusable(stdout) ==
    \/ stdout.kind \in {"empty", "garbage"}
    \/ stdout.kind = "json" /\ ~stdout.iterable

\* C7: empty or unparsable linter output makes the bridge add exactly one
\* finding, of source 'system'.
C7_UnusableOutput ==
    \A r \in Procs :
        (pc[r] = "returned" /\ Unusable(result[r].stdout)) =>
            /\ Len(BridgeFindings(LastValue(r))) = 1
            /\ BridgeFindings(LastValue(r))[1].source = "system"

\* C8: a non-zero exit status of the linter makes the bridge contribute a
\* single system-sourced finding of category runtime_error, and analyze
\* returns.
C8_NonZeroExitReported ==
    \A r \in Procs :
        result[r].returncode # 0 =>
            /\ pc[r] # "raised"
            /\ pc[r] = "returned" =>
                  /\ Len(BridgeFindings(LastValue(r))) = 1
                  /\ BridgeFindings(LastValue(r))[1].source = "system"
                  /\ BridgeFindings(LastValue(r))[1].category = RUNTIME_ERROR

\* C9: the linter invocation is bounded: whenever a request waits for the
\* linter, it stops waiting.
C9_LinterWaitBounded == \A r \in Procs : (pc[r] = "lint") ~> (pc[r] # "lint")

\* What analyze returns for a scenario when nothing else runs.
AnalyzeAlone(sc) ==
    LET snippet == Snippets[sc.code]
        fresh == ResetFields(NewAnalyzer, 1)
        self == IF snippet.parse = "ok" THEN _build_context(fresh, snippet.tree) ELSE fresh
        list == _run_ast_analysis(snippet, self.functions, sc.check_fault)
    IN  IF sc.tmp = "write_fails"
        THEN Append(list, SystemFinding("Error running pylint", <<"OSError">>))
        ELSE IF sc.lint = "missing"
        THEN Append(list, SystemFinding("Error running pylint", <<"FileNotFoundError">>))
        ELSE list \o ProcessOutput(PylintRun(sc.lint, sc.code), self.variables)

\* C10: under every interleaving of concurrent requests, each request gets
\* the findings it gets when it runs alone, and no two requests hold the same
\* temporary file.
C10_Isolated ==
    /\ \A r \in Procs :
          /\ pc[r] \in {"returned", "responded"} => returned[r][1].value = AnalyzeAlone(scen[r])
          /\ pc[r] = "responded" =>
                response[r] = SortFeedback(Prepared(AnalyzeAlone(scen[r]), anthropicClient,
                                                    explain_failed[r]))
    /\ \A r, q \in Procs :
          (r # q /\ pc[r] \in {"lint", "output"} /\ pc[q] \in {"lint", "output"}) =>
              temp_file_path[r] # temp_file_path[q]

\* C10 witness: two requests for different snippets have both responded with
\* findings of the linter, after holding their temporary files at once.
C10_Witness ==
    \E r, q \in Procs :
        /\ r # q
        /\ pc[r] = "responded" /\ pc[q] = "output"
        /\ scen[r].code # scen[q].code
        /\ \E i \in 1..Len(response[r]) : response[r][i].source = "pylint"
        /\ temp_file_path[r] > temp_file_path[q]

\* What identifies a finding apart from the keys the handler adds.
Core(f) == <<f.line, f.category, f.message, f.detail, f.source>>
Count(list, core) == Cardinality({i \in 1..Len(list) : Core(list[i]) = core})

\* The handler of api/index.py runs its explanation loop for request r in
\* this step.
IndexExplains(r) ==
    /\ pc[r] \in {"returned", "collected"}
    /\ scen[r].route = "index"
    /\ pc'[r] = "responded"
    /\ anthropicClient

\* C11: a failure of the explanation generator for one finding removes no
\* finding and changes no category or line, and every finding whose source is
\* not the system still gets its explanation, the failed one a placeholder.
C11_ExplanationFailureKept ==
    [][\A r \in Procs :
          IndexExplains(r) =>
              LET before == heap[r][HandlerFeedback(r)]
                  after == heap'[r][HandlerFeedback(r)]
              IN  /\ Len(after) = Len(before)
                  /\ \A i \in 1..Len(before) :
                        Count(after, Core(before[i])) = Count(before, Core(before[i]))
                  /\ \A i \in 1..Len(before) :
                        before[i].source # "system" =>
                            \E j \in 1..Len(after) :
                               /\ Core(after[j]) = Core(before[i])
                               /\ after[j].explanation # "absent"
                               /\ i \in explain_failed'[r] =>
                                      after[j].explanation \in index_placeholders]_vars

\* C11 witness: a response of api/index.py where the generator failed on one
\* finding and answered for another.
C11_Witness ==
    \E r \in Procs :
        /\ pc[r] = "responded"
        /\ scen[r].route = "index"
        /\ explain_failed[r] # {}
        /\ \E i, j \in 1..Len(response[r]) :
              /\ response[r][i].explanation \in index_placeholders
              /\ response[r][j].explanation = "text"

\* Request r has had the tree of its snippet analysed by every check.
Analysed(r) ==
    /\ pc[r] \in {"returned", "responded"}
    /\ HasReturned(r)
    /\ Snippets[scen[r].code].parse = "ok"
    /\ scen[r].check_fault = 0

TreeOf(r) == Snippets[scen[r].code].tree

\* The findings with a message on a line among those analyze returned.
FindingsAt(r, message, line) ==
    SelectSeq(LastValue(r), LAMBDA f : f.message = message /\ f.line = line)

\* The `while True:` loops of a tree.
WhileTrueLoops(tree) ==
    {node \in Nodes(tree) :
        node.kind = "While" /\ node.test.kind = "Constant" /\ node.test.value = "True"}

\* No break, return, raise or exit call anywhere in the loop's subtree.
HasNoWayOut(loop) ==
    \A s \in Nodes(loop) :
        /\ s.kind \notin {"Break", "Return", "Raise"}
        /\ ~(s.kind = "Call" /\ s.func.kind = "Attribute" /\ s.func.attr = "exit")

HasConditional(loop) == \E s \in Nodes(loop) : s.kind = "If"

\* C12 as stated: a `while True:` loop with no break, return, raise or exit
\* call in its subtree gets exactly one finding of the infinite-loop check, of
\* category fatal_error at the loop's line; a loop with a break gets none.
C12_EndlessLoopFatal ==
    \A r \in Procs :
        Analysed(r) =>
            \A loop \in WhileTrueLoops(TreeOf(r)) :
                LET found == FindingsAt(r, "Infinite loop detected", loop.lineno)
                IN  /\ HasNoWayOut(loop) =>
                          Len(found) = 1 /\ found[1].category = FATAL_ERROR
                    /\ (\E s \in Nodes(loop) : s.kind = "Break") => found = <<>>

\* C12 amended: a `while True:` loop with no break, return, raise or exit
\* call in its subtree gets exactly one finding of the infinite-loop check at
\* the loop's line, of category fatal_error when the subtree holds no `if`
\* statement and potential_error when it holds one; a loop with a break gets
\* none.
C12_EndlessLoopFlagged ==
    \A r \in Procs :
        Analysed(r) =>
            \A loop \in WhileTrueLoops(TreeOf(r)) :
                LET found == FindingsAt(r, "Infinite loop detected", loop.lineno)
                IN  /\ HasNoWayOut(loop) =>
                          /\ Len(found) = 1
                          /\ found[1].category =
                                IF HasConditional(loop) THEN POTENTIAL_ERROR
                                ELSE FATAL_ERROR
                    /\ (\E s \in Nodes(loop) : s.kind = "Break") => found = <<>>

\* C12 witness: analyze has returned for a `while True:` loop with no way
\* out whose body holds an `if` statement next to another statement.
C12_Witness ==
    \E r \in Procs :
        /\ Analysed(r)
        /\ \E loop \in WhileTrueLoops(TreeOf(r)) :
              /\ HasNoWayOut(loop)
              /\ HasConditional(loop)
              /\ Len(loop.body) = 2
              /\ FindingsAt(r, "Infinite loop detected", loop.lineno) # <<>>

\* The function definitions of a tree with exactly one default, a list, dict
\* or set literal.
OneMutableDefault(tree) ==
    {node \in Nodes(tree) :
        /\ node.kind = "FunctionDef"
        /\ Len(node.args.defaults) = 1
        /\ node.args.defaults[1].kind \in {"List", "Dict", "Set"}}

\* The number of calls by name of a function in a tree.
CallSites(tree, name) ==
    LET nodes == Walk(tree)
    IN  Cardinality({i \in 1..Len(nodes) :
                        /\ nodes[i].kind = "Call"
                        /\ nodes[i].func.kind = "Name"
                        /\ nodes[i].func.id = name})

\* C13: a function with one mutable default parameter gets exactly one finding
\* of the mutable-default check, of category runtime_error when the function
\* has exactly one call site and potential_error when it has two.
C13_MutableDefaultByCalls ==
    \A r \in Procs :
        Analysed(r) =>
            \A func \in OneMutableDefault(TreeOf(r)) :
                LET found == FindingsAt(r, "mutable default argument", func.lineno)
                    sites == CallSites(TreeOf(r), func.name)
                IN  /\ Len(found) = 1
                    /\ sites = 1 => found[1].category = RUNTIME_ERROR
                    /\ sites = 2 => found[1].category = POTENTIAL_ERROR

\* The handlers of a tree that name no exception type.
BareHandlers(tree) ==
    {node \in Nodes(tree) : node.kind = "ExceptHandler" /\ node.type.kind = "None"}

\* The findings of the broad-exception check on a line.
HandlerFindingsAt(r, line) ==
    SelectSeq(LastValue(r),
              LAMBDA f : /\ f.line = line
                         /\ f.message \in {"bare except: pass",
                                           "bare except or except Exception"})

IsExactly(body, kind) == Len(body) = 1 /\ body[1].kind = kind

\* C14 as stated: a bare exception handler gets exactly one finding of the
\* broad-exception check, of category runtime_error when its body is exactly
\* `pass` and potential_error when its body is exactly `raise`.
C14_BareHandlerRaisePotential ==
    \A r \in Procs :
        Analysed(r) =>
            \A handler \in BareHandlers(TreeOf(r)) :
                LET found == HandlerFindingsAt(r, handler.lineno)
                IN  /\ Len(found) = 1
                    /\ IsExactly(handler.body, "Pass") => found[1].category = RUNTIME_ERROR
                    /\ IsExactly(handler.body, "Raise") =>
                          found[1].category = POTENTIAL_ERROR

\* C14 amended: a bare exception handler gets exactly one finding of the
\* broad-exception check, of category runtime_error when its body is exactly
\* `pass` and bad_habit when its body is exactly `raise`.
C14_BareHandlerRaiseHabit ==
    \A r \in Procs :
        Analysed(r) =>
            \A handler \in BareHandlers(TreeOf(r)) :
                LET found == HandlerFindingsAt(r, handler.lineno)
                IN  /\ Len(found) = 1
                    /\ IsExactly(handler.body, "Pass") => found[1].category = RUNTIME_ERROR
                    /\ IsExactly(handler.body, "Raise") => found[1].category = BAD_HABIT

\* C14 witness: analyze has returned for a bare handler whose body is exactly
\* `raise`, with its finding.
C14_Witness ==
    \E r \in Procs :
        /\ Analysed(r)
        /\ \E handler \in BareHandlers(TreeOf(r)) :
              /\ IsExactly(handler.body, "Raise")
              /\ HandlerFindingsAt(r, handler.lineno) # <<>>

\* The names Python builds in that the shadowing check knows, and those of its
\* high-risk set.
KnownBuiltins ==
    {"list", "dict", "set", "tuple", "int", "float", "str", "bool", "type", "object",
     "file", "open", "input", "print", "range", "enumerate", "len", "max", "min", "sum",
     "filter", "map", "zip"}
HighRisk == {"open", "print", "input", "len", "str", "int", "float"}

\* Whether a statement after position i of the module's body calls the name.
CalledLater(tree, i, name) ==
    \E j \in (i + 1)..Len(tree.body) :
        \E s \in Nodes(tree.body[j]) :
            s.kind = "Call" /\ s.func.kind = "Name" /\ s.func.id = name

\* C15: an assignment that binds a built-in name gets exactly one finding of
\* the shadowing check, of category runtime_error when a later statement of
\* the same scope calls the name, and of category bad_habit when none does and
\* the name is outside the high-risk set.
C15_ShadowingByLaterCall ==
    \A r \in Procs :
        Analysed(r) =>
            \A i \in 1..Len(TreeOf(r).body) :
                LET stmt == TreeOf(r).body[i]
                IN  (/\ stmt.kind = "Assign"
                     /\ Len(stmt.targets) = 1
                     /\ stmt.targets[1].kind = "Name"
                     /\ stmt.targets[1].id \in KnownBuiltins) =>
                        LET name == stmt.targets[1].id
                            found == SelectSeq(FindingsAt(r, "Variable name shadows a built-in",
                                                          stmt.lineno),
                                               LAMBDA f : f.detail = <<name>>)
                        IN  /\ Len(found) = 1
                            /\ CalledLater(TreeOf(r), i, name) =>
                                  found[1].category = RUNTIME_ERROR
                            /\ (~CalledLater(TreeOf(r), i, name) /\ name \notin HighRisk) =>
                                  found[1].category = BAD_HABIT

\* analyze has returned for request r after the linter reported on its file.
Linted(r) ==
    /\ pc[r] \in {"returned", "responded"}
    /\ HasReturned(r)
    /\ scen[r].lint = "normal" /\ scen[r].tmp = "ok"
    /\ Snippets[scen[r].code].parse = "ok"

\* The messages the linter reported for request r, by position.
Reported(r) == Snippets[scen[r].code].messages

\* The findings of the linter tag that carry a message's line and text.
FindingsFor(r, msg) ==
    SelectSeq(LastValue(r),
              LAMBDA f : /\ f.source = "pylint"
                         /\ f.line = msg.line
                         /\ f.message = msg.text
                         /\ f.detail = msg.names)

\* C16: a linter message of symbol undefined-variable yields a finding of
\* category potential_error when the name it quotes is a key of the context's
\* variables mapping, and of category runtime_error for any other name.
C16_KnownNamePotential ==
    \A r \in Procs :
        Linted(r) =>
            \A k \in 1..Len(Reported(r)) :
                LET msg == Reported(r)[k]
                IN  (msg.symbol = "undefined-variable" /\ msg.names # <<>>) =>
                        /\ FindingsFor(r, msg) # <<>>
                        /\ \A i \in 1..Len(FindingsFor(r, msg)) :
                              FindingsFor(r, msg)[i].category =
                                  IF msg.names[1] \in DOMAIN analyzer[r].variables
                                  THEN POTENTIAL_ERROR ELSE RUNTIME_ERROR

C18_RetainedIff ==
    \A r \in Procs :
        Linted(r) =>
            \A k \in 1..Len(Reported(r)) :
                LET msg == Reported(r)[k]
                IN  FindingsFor(r, msg) # <<>>
                    <=> \/ msg.type = "error"
                        \/ msg.symbol \in definite_error_symbols
                        \/ msg.symbol \in potential_error_symbols

\* C18 witness: analyze has returned for a snippet whose warning outside the
\* two sets left no finding.
C18_Witness ==
    \E r \in Procs :
        /\ Linted(r)
        /\ \E k \in 1..Len(Reported(r)) :
              /\ Reported(r)[k].type = "warning"
              /\ Reported(r)[k].symbol = "unused-variable"
              /\ FindingsFor(r, Reported(r)[k]) = <<>>
        /\ \A i \in 1..Len(LastValue(r)) : LastValue(r)[i].source # "pylint"

\* The orders in which the six checks can be called.
CheckOrders ==
    {order \in [1..NumChecks -> 1..NumChecks] :
        \A i, j \in 1..NumChecks : i # j => order[i] # order[j]}

\* What the battery appends when its calls are made in another order; results
\* holds what each check appends.
BatteryInOrder(order, results) == Concat([k \in 1..NumChecks |-> results[order[k]]])

\* C19: the order in which the six checks run does not affect the final
\* result: whatever the order, the ranked sequence of the response is the
\* same, the relative order of findings of one category and line included.
C19_OrderIndependent ==
    \A r \in Procs :
        (Analysed(r) /\ Linted(r) /\ pc[r] = "responded" /\ ~anthropicClient) =>
            LET results == CheckResults(TreeOf(r), analyzer[r].functions)
                bridge == BridgeFindings(LastValue(r))
            IN  \A order \in CheckOrders :
                    response[r] =
                        SortFeedback(Normalise(BatteryInOrder(order, results) \o bridge))

\* The function and loop bodies of a tree.
Blocked(tree) == {node \in Nodes(tree) : node.kind \in {"FunctionDef", "For", "While"}}

IsUnconditionalJump(stmt) == stmt.kind \in {"Return", "Break", "Continue"}

\* The positions of a body that follow a return, break or continue of the
\* same body.
AfterJump(body) ==
    {i \in 1..Len(body) : \E j \in 1..(i - 1) : IsUnconditionalJump(body[j])}

\* C20: the unreachable-code check flags a function or loop body whenever a
\* statement follows an unconditional return, break or continue of the body,
\* also when that statement is the last of the body, and reports the line of
\* the first such statement.
C20_UnreachableFlagged ==
    \A r \in Procs :
        Analysed(r) =>
            \A node \in Blocked(TreeOf(r)) :
                AfterJump(node.body) # {} =>
                    LET first == CHOOSE i \in AfterJump(node.body) :
                                    \A j \in AfterJump(node.body) : i <= j
                    IN  FindingsAt(r, "Unreachable code detected",
                                   node.body[first].lineno) # <<>>

\* The statements of a body that follow a return, break or continue of it.
Unreachable(body) == {body[i] : i \in AfterJump(body)}

IsWork(stmt) ==
    \/ stmt.kind \in {"Assign", "AugAssign"}
    \/ stmt.kind = "Expr" /\ stmt.value.kind = "Call"

\* C21: an unreachable-code finding has category runtime_error when an
\* unreachable statement is a return, else potential_error when the
\* unreachable statements include an assignment, an augmented assignment or a
\* call, else bad_habit.
C21_UnreachableCategory ==
    \A r \in Procs :
        Analysed(r) =>
            \A node \in Blocked(TreeOf(r)) :
                AfterJump(node.body) # {} =>
                    LET first == CHOOSE i \in AfterJump(node.body) :
                                    \A j \in AfterJump(node.body) : i <= j
                        found == FindingsAt(r, "Unreachable code detected",
                                            node.body[first].lineno)
                    IN  \A k \in 1..Len(found) :
                            found[k].category =
                                IF \E s \in Unreachable(node.body) : s.kind = "Return"
                                THEN RUNTIME_ERROR
                                ELSE IF \E s \in Unreachable(node.body) : IsWork(s)
                                THEN POTENTIAL_ERROR
                                ELSE BAD_HABIT

IsOpenCall(node) == node.kind = "Call" /\ node.func.kind = "Name" /\ node.func.id = "open"

\* The calls of open() of a tree that are inside a `with` statement.
OpensInWith(tree) ==
    {c \in Nodes(tree) : IsOpenCall(c) /\ \E w \in Nodes(tree) : w.kind = "With" /\ c \in Nodes(w)}

\* The calls of open() of a tree assigned to a variable on which close() is
\* called on a later line.
OpensClosed(tree) ==
    {c \in Nodes(tree) :
        /\ IsOpenCall(c)
        /\ \E a \in Nodes(tree) :
              /\ a.kind = "Assign" /\ a.value = c
              /\ Len(a.targets) = 1 /\ a.targets[1].kind = "Name"
              /\ \E e \in Nodes(tree) :
                    /\ e.kind = "Call" /\ e.func.kind = "Attribute"
                    /\ e.func.attr = "close"
                    /\ e.func.value.kind = "Name"
                    /\ e.func.value.id = a.targets[1].id
                    /\ e.lineno > a.lineno}

\* C22: the resource-management check emits a finding for a call of open()
\* only if the call is neither inside a `with` statement nor assigned to a
\* variable that is later closed: such calls get no finding.
C22_ManagedOpenUnflagged ==
    \A r \in Procs :
        Analysed(r) =>
            \A c \in OpensInWith(TreeOf(r)) \cup OpensClosed(TreeOf(r)) :
                FindingsAt(r, "File opened without context manager", c.lineno) = <<>>

\* A handler that names no exception type, or the type Exception.
IsBroad(handler) ==
    \/ handler.type.kind = "None"
    \/ handler.type.kind = "Name" /\ handler.type.id = "Exception"

\* C23: a broad exception handler whose body is exactly `pass` is reported as
\* bad_habit when its try statement has a non-empty finally block, and as
\* runtime_error in every other case.
C23_CleanupDowngrades ==
    \A r \in Procs :
        Analysed(r) =>
            \A try \in {t \in Nodes(TreeOf(r)) : t.kind = "Try"} :
                \A h \in 1..Len(try.handlers) :
                    (IsBroad(try.handlers[h]) /\ IsExactly(try.handlers[h].body, "Pass")) =>
                        LET found == HandlerFindingsAt(r, try.handlers[h].lineno)
                        IN  /\ found # <<>>
                            /\ \A k \in 1..Len(found) :
                                  found[k].category =
                                      IF try.finalbody # <<>> THEN BAD_HABIT
                                      ELSE RUNTIME_ERROR

\* The parameter that carries the only default of a function: Python gives
\* the defaults to the last parameters.
Defaulted(func) == func.args.args[Len(func.args.args)].arg

AssignedIn(func, name) ==
    \E s \in Nodes(func) :
        s.kind = "Assign" /\ \E t \in 1..Len(s.targets) :
                                s.targets[t].kind = "Name" /\ s.targets[t].id = name

\* C24: for a function called at most once, the finding for a mutable default
\* is potential_error only if the parameter that carries the default is
\* assigned in the body; an assignment to another parameter does not escalate.
C24_PerParameterReassign ==
    \A r \in Procs :
        Analysed(r) =>
            \A func \in OneMutableDefault(TreeOf(r)) :
                CallSites(TreeOf(r), func.name) <= 1 =>
                    LET found == FindingsAt(r, "mutable default argument", func.lineno)
                    IN  \A k \in 1..Len(found) :
                            found[k].category = POTENTIAL_ERROR =>
                                AssignedIn(func, Defaulted(func))

\* C25: every retained linter message whose symbol is in the possible-error
\* set yields a finding of category potential_error, whatever its type.
C25_PossibleErrorMapped ==
    \A r \in Procs :
        Linted(r) =>
            \A k \in 1..Len(Reported(r)) :
                LET msg == Reported(r)[k]
                IN  msg.symbol \in potential_error_symbols =>
                        /\ FindingsFor(r, msg) # <<>>
                        /\ \A i \in 1..Len(FindingsFor(r, msg)) :
                              FindingsFor(r, msg)[i].category = POTENTIAL_ERROR

\* C26: every finding of the sequence handed to the ranker has a line that
\* is a non-negative integer, never None, whatever the parser and the linter
\* report, and the sort on (rank, line) never fails to compare two keys.
C26_LinesAreNumbers ==
    \A r \in Procs :
        /\ HasReturned(r) =>
              \A i \in 1..Len(LastValue(r)) :
                  LastValue(r)[i].line # NoLine /\ LastValue(r)[i].line >= 0
        /\ raised[r] # "TypeError"

\* The findings the analyzer of request r has appended to its current list.
Produced(r) == heap[r][analyzer[r].feedback]

\* C27: within one request the finding sequence only grows: a request that
\* has ended has answered, and every finding a check, the linter bridge or the
\* parser-failure path appended is in the sequence of the response.
C27_FindingsKept ==
    \A r \in Procs :
        (/\ \/ pc[r] \in {"responded", "failed"}
            \/ pc[r] = "raised" /\ scen[r].route = "app"
         /\ Produced(r) # <<>>) =>
            /\ pc[r] = "responded"
            /\ \A i \in 1..Len(Produced(r)) :
                  Count(response[r], Core(Produced(r)[i]))
                      >= Count(Produced(r), Core(Produced(r)[i]))

\* C28: a further call of analyze on the same analyzer leaves the lists its
\* earlier calls returned as they were, each call returning a list object of
\* its own; only the handler's passes change the list it was last handed.
C28_ReturnedListKept ==
    \A r \in Procs : \A i \in 1..Len(returned[r]) :
        /\ (i < Len(returned[r]) \/ pc[r] \notin {"responded", "failed"}) =>
              heap[r][returned[r][i].ref] = returned[r][i].value
        /\ \A j \in 1..Len(returned[r]) :
              i # j => returned[r][i].ref # returned[r][j].ref

\* C28 witness: a second call has returned findings while the list of the
\* first call holds the findings it was returned with.
C28_Witness ==
    \E r \in Procs :
        /\ Len(returned[r]) = 2
        /\ pc[r] = "returned"
        /\ returned[r][1].value # <<>>
        /\ returned[r][2].value # <<>>
        /\ heap[r][returned[r][1].ref] = returned[r][1].value

====
